---- MODULE Spec2Model ----
(***************************************************************************)
(* A model of the BNL archive container (src/src/bnl.rs) and of the        *)
(* VirtualResource addressing layer (src/src/lib.rs).                      *)
(*                                                                         *)
(* Bytes are the integers 0..255, byte buffers are sequences of bytes and  *)
(* every offset is 0-based as in the source; Slice(b, s, e) is b[s..e].    *)
(* A fallible operation returns a record whose status is "Ok", the name of *)
(* the error it returns, or "Panic" where the source would abort.          *)
(***************************************************************************)
EXTENDS Integers, Sequences, FiniteSets, TLC

VARIABLES
    assets,     \* BNLFile.assets : sequence of RawAsset
    header,     \* BNLFile.header : BNLHeader
    encoded,    \* the bytes returned by the last to_bytes call, if any
    decoded,    \* what the last from_bytes call returned, if any
    result,     \* the last lookup or mutation called and what it returned
    slices,     \* VirtualResource.slices
    read,       \* the last get_bytes call on the resource and its result
    made,       \* the from_dvl call that made the resource, if one did
    lib,        \* the BNLFile of lib.rs: the four sections and the descriptions
    libResult,  \* the last call on the BNLFile of lib.rs and what it returned
    cueDescriptor, \* a CueListDescriptor
    iter,       \* a CueListIterator over the descriptor and what it has yielded
    stream      \* a BitStream and what its last read returned

vars ==
    <<assets, header, encoded, decoded, result, slices, read, made, lib, libResult,
      cueDescriptor, iter, stream>>

bnlVars == <<assets, header, encoded, decoded, result>>
vrVars == <<slices, read, made>>
libVars == <<lib, libResult>>
cueVars == <<cueDescriptor, iter>>

----------------------------------------------------------------------------
(* Bounds of the model *)

MaxSlices == 4
MaxSliceLen == 2

----------------------------------------------------------------------------
(* Byte-buffer helpers *)

Min(a, b) == IF a < b THEN a ELSE b

\* b[s..e] with 0-based, end-exclusive indices
Slice(b, s, e) == SubSeq(b, s + 1, e)

Zeros(n) == [i \in 1..n |-> 0]

RECURSIVE Concat(_)
Concat(ss) == IF ss = <<>> THEN <<>> ELSE Head(ss) \o Concat(Tail(ss))

----------------------------------------------------------------------------
(* VirtualResource  (src/src/lib.rs) *)

\* tests::make_data : DATA[i] = i as u8
DATA(i) == i % 256

\* the gap between the source offsets the test takes its slices at is twice
\* the slice length (slices of 100 bytes at 0, 200, 400, 600)
Stride == 2 * MaxSliceLen

\* &DATA[k*Stride .. k*Stride + n], the k-th slice (k counted from 0)
DataSlice(k, n) == [j \in 1..n |-> DATA(k * Stride + j - 1)]

\* the slice lists the model builds resources from: any number of slices up
\* to MaxSlices, each of any length up to MaxSliceLen (0 included)
SliceLists ==
    UNION { { [k \in 1..n |-> DataSlice(k - 1, lens[k])] :
                lens \in [1..n -> 0..MaxSliceLen] } : n \in 0..MaxSlices }

RECURSIVE len(_)
len(sl) == IF sl = <<>> THEN 0 ELSE Len(Head(sl)) + len(Tail(sl))

is_empty(sl) == len(sl) = 0

saturating_sub(a, b) == IF a > b THEN a - b ELSE 0

\* a variant that returns the two errors the other way round
get_bytes_check_swapped(end, start_offset, get_size) ==
    IF end < start_offset THEN "SizeOutOfBounds"
    ELSE IF end - start_offset < get_size THEN "OffsetOutOfBounds"
    ELSE "Ok"

\* the two checks get_bytes makes before it copies anything
get_bytes_check(end, start_offset, get_size) ==
    IF end < start_offset THEN "OffsetOutOfBounds"
    ELSE IF end - start_offset < get_size THEN "SizeOutOfBounds"
    ELSE "Ok"

\* a variant that copies every slice from its first byte
cp_i_from_zero(start_offset, slice_start) == 0

\* the index in the current slice the copy starts at
cp_i(start_offset, slice_start) == saturating_sub(start_offset, slice_start)

\* v[at .. at + Len(src)] .copy_from_slice(src)
copy_from_slice(v, at, src) ==
    [k \in 1..Len(v) |->
        IF k > at /\ k <= at + Len(src) THEN src[k - at] ELSE v[k]]

\* the loop of get_bytes over self.slices, from slice number i on
RECURSIVE get_bytes_loop(_, _, _, _, _, _, _)
get_bytes_loop(sl, i, start_offset, get_size, slice_start, total_written, v) ==
    IF i > Len(sl)
    THEN IF total_written # get_size
         THEN [status |-> "SizeOutOfBounds", bytes |-> <<>>]
         ELSE [status |-> "Ok", bytes |-> v]
    ELSE
      LET slice == sl[i]
          slice_size == Len(slice)
      IN IF slice_start + slice_size > start_offset
         THEN LET desired_cp_size == get_size - total_written
                  i0 == cp_i(start_offset, slice_start)
                  cp_size == Min(desired_cp_size, slice_size - i0)
                  cp_j == i0 + cp_size
                  written == total_written + cp_size
              IN IF \/ desired_cp_size < 0      \* usize subtraction overflow
                    \/ slice_size - i0 < 0      \* usize subtraction overflow
                    \/ cp_j > slice_size        \* slice index out of range
                 THEN [status |-> "Panic", bytes |-> <<>>]
                 ELSE IF written > get_size
                 THEN [status |-> "SizeOutOfBounds", bytes |-> <<>>]
                 ELSE IF written = get_size
                 THEN [status |-> "Ok",
                       bytes |-> copy_from_slice(v, total_written,
                                                 Slice(slice, i0, cp_j))]
                 ELSE get_bytes_loop(sl, i + 1, start_offset, get_size,
                                     slice_start + slice_size, written,
                                     copy_from_slice(v, total_written,
                                                     Slice(slice, i0, cp_j)))
         ELSE get_bytes_loop(sl, i + 1, start_offset, get_size,
                             slice_start + slice_size, total_written, v)

get_bytes(sl, start_offset, get_size) ==
    LET check == get_bytes_check(len(sl), start_offset, get_size)
    IN IF check # "Ok"
       THEN [status |-> check, bytes |-> <<>>]
       ELSE get_bytes_loop(sl, 1, start_offset, get_size, 0, 0, Zeros(get_size))

\* the loop of get_all_bytes over self.slices
RECURSIVE get_all_bytes_loop(_, _, _)
get_all_bytes_loop(sl, curr, bytes) ==
    IF sl = <<>> THEN bytes
    ELSE LET slice == Head(sl)
             copy_size == Len(slice)
         IN get_all_bytes_loop(Tail(sl), curr + copy_size,
                               copy_from_slice(bytes, curr, slice))

\* a variant whose loop never advances curr, so that every slice is copied
\* to the start of the buffer
get_all_bytes_at_start(sl) ==
    LET RECURSIVE at_start(_, _)
        at_start(rest, bytes) ==
            IF rest = <<>> THEN bytes
            ELSE at_start(Tail(rest), copy_from_slice(bytes, 0, Head(rest)))
    IN at_start(sl, Zeros(len(sl)))

\* VirtualResource::get_all_bytes
get_all_bytes(sl) == get_all_bytes_loop(sl, 0, Zeros(len(sl)))

\* a call of get_bytes that has not returned yet
Request(start_offset, get_size) ==
    [start |-> start_offset, size |-> get_size, status |-> "None", bytes |-> <<>>]

NoRead == Request(0, 0)

\* VirtualResource::from_slices
from_slices(sl) == sl

\* VirtualResource::get_bytes(read.start, read.size) returns
GetBytes ==
    /\ read.status = "None"
    /\ \E r \in { get_bytes(slices, read.start, read.size) } :
          read' = [read EXCEPT !.status = r.status, !.bytes = r.bytes]
    /\ UNCHANGED <<slices, made>>
    /\ UNCHANGED <<bnlVars, libVars, cueVars, stream>>

\* VirtualResource::len()
ResourceLen ==
    /\ result' = [op |-> "len", status |-> "Ok", arg |-> << len(slices) >>]
    /\ UNCHANGED <<assets, header, encoded, decoded>>
    /\ UNCHANGED <<vrVars, libVars, cueVars, stream>>

\* VirtualResource::is_empty()
ResourceIsEmpty ==
    /\ result' = [op |-> "is_empty", status |-> "Ok", arg |-> << is_empty(slices) >>]
    /\ UNCHANGED <<assets, header, encoded, decoded>>
    /\ UNCHANGED <<vrVars, libVars, cueVars, stream>>

\* VirtualResource::get_all_bytes()
GetAllBytes ==
    /\ result' = [op |-> "get_all_bytes", status |-> "Ok",
                  arg |-> << get_all_bytes(slices) >>]
    /\ UNCHANGED <<assets, header, encoded, decoded>>
    /\ UNCHANGED <<vrVars, libVars, cueVars, stream>>

\* a variant that checks only the offset of a view
from_dvl_check_offset_only(view, bytes) ==
    IF view.offset > Len(bytes) THEN "OffsetOutOfBounds" ELSE "Ok"

\* the two checks from_dvl makes on a view before it slices the pool
from_dvl_check(view, bytes) ==
    IF view.offset > Len(bytes) THEN "OffsetOutOfBounds"
    ELSE IF Len(bytes) - view.offset < view.size THEN "SizeOutOfBounds"
    ELSE "Ok"

\* VirtualResource::from_dvl : the loop over the views
RECURSIVE from_dvl(_, _)
from_dvl(views, bytes) ==
    IF views = <<>> THEN [status |-> "Ok", slices |-> <<>>]
    ELSE LET view == Head(views)
             checked == from_dvl_check(view, bytes)
             rest == from_dvl(Tail(views), bytes)
         IN IF checked # "Ok" THEN [status |-> checked, slices |-> <<>>]
            ELSE IF view.offset + view.size > Len(bytes)
            THEN [status |-> "Panic", slices |-> <<>>]   \* slice end out of range
            ELSE IF rest.status # "Ok" THEN rest
            ELSE [status |-> "Ok",
                  slices |-> << Slice(bytes, view.offset, view.offset + view.size) >>
                                \o rest.slices]

\* a from_dvl call not yet made, with its arguments
DvlCall(views, bytes) == [views |-> views, bytes |-> bytes, status |-> "None"]

NoDvl == DvlCall(<<>>, <<>>)

\* VirtualResource::from_dvl(dataview_list, bytes)
FromDvl ==
    /\ made.status = "None"
    /\ \E r \in { from_dvl(made.views, made.bytes) } :
          /\ made' = [made EXCEPT !.status = r.status]
          /\ slices' = r.slices
    /\ UNCHANGED read
    /\ UNCHANGED <<bnlVars, libVars, cueVars, stream>>

\* the largest offset and size the model asks for: one past the longest
\* resource, so that both out-of-bounds errors happen
MaxRead == MaxSlices * MaxSliceLen + 1

----------------------------------------------------------------------------
(* Little-endian integers (byteorder::LittleEndian) *)

\* `as u32` of a usize: 2^32 is beyond the integers TLC computes with, and no
\* length in the model comes near it, so the cast keeps the value
U32(n) == n

\* `as u16` of a usize
U16(n) == n % 65536

write_u16(n) == << n % 256, (n \div 256) % 256 >>

write_u32(n) ==
    << n % 256, (n \div 256) % 256, (n \div 65536) % 256, (n \div 16777216) % 256 >>

\* the u16 / u32 stored at the 0-based offset off of b
read_u16(b, off) == b[off + 1] + 256 * b[off + 2]

read_u32(b, off) ==
    b[off + 1] + 256 * b[off + 2] + 65536 * b[off + 3] + 16777216 * b[off + 4]

\* b with the u32 at offset off overwritten
patch_u32(b, off, n) == copy_from_slice(b, off, write_u32(n))

----------------------------------------------------------------------------
(* zlib (miniz_oxide), an external primitive: the compressed form is the     *)
(* two-byte zlib stream header followed by the data; a stream that does not  *)
(* start with that header does not inflate.                                  *)

ZlibHeader == << 120, 1 >>

compress_to_vec_zlib(b) == ZlibHeader \o b

decompress_to_vec_zlib(z) ==
    IF Len(z) >= 2 /\ SubSeq(z, 1, 2) = ZlibHeader
    THEN [status |-> "Ok", bytes |-> SubSeq(z, 3, Len(z))]
    ELSE [status |-> "DecompressionFailure", bytes |-> <<>>]

----------------------------------------------------------------------------
(* DataView, DataViewList *)

DataView(offset, size) == [offset |-> offset, size |-> size]

\* DataView::as_range : start..end
as_range(view) == [start |-> view.offset, end |-> U32(view.offset + view.size)]

\* DataView::overlaps
overlaps(view, other) ==
    LET r1 == as_range(view)
        r2 == as_range(other)
    IN r1.start < r2.end /\ r2.start < r1.end

\* DataViewList::bytes_required
bytes_required(dvl) == 8 + 8 * Len(dvl.views)

RECURSIVE views_to_bytes(_)
views_to_bytes(views) ==
    IF views = <<>> THEN <<>>
    ELSE write_u32(Head(views).offset) \o write_u32(Head(views).size)
            \o views_to_bytes(Tail(views))

\* DataViewList::to_bytes : total size, count, then the views in order
DataViewList_to_bytes(dvl) ==
    write_u32(dvl.size) \o write_u32(dvl.num_views) \o views_to_bytes(dvl.views)

\* DataViewList::from_bytes : fails when the buffer is shorter than the layout
\* it declares
DataViewList_from_bytes(b) ==
    IF Len(b) < 8
    THEN [status |-> "Err", dvl |-> [size |-> 0, num_views |-> 0, views |-> <<>>]]
    ELSE LET size == read_u32(b, 0)
             num_views == read_u32(b, 4)
         IN IF Len(b) < 8 + 8 * num_views
            THEN [status |-> "Err",
                  dvl |-> [size |-> 0, num_views |-> 0, views |-> <<>>]]
            ELSE [status |-> "Ok",
                  dvl |-> [size |-> size, num_views |-> num_views,
                           views |-> [k \in 1..num_views |->
                                        DataView(read_u32(b, 8 * k),
                                                 read_u32(b, 8 * k + 4))]]]

\* DataViewList::slices : the sub-slice of the pool each view names, or the
\* error of the first view that is out of bounds
RECURSIVE DataViewList_slices(_, _)
DataViewList_slices(views, pool) ==
    IF views = <<>> THEN [status |-> "Ok", slices |-> <<>>]
    ELSE LET view == Head(views)
         IN IF view.offset > Len(pool)
            THEN [status |-> "OffsetOutOfBounds", slices |-> <<>>]
            ELSE IF Len(pool) - view.offset < view.size
            THEN [status |-> "SizeOutOfBounds", slices |-> <<>>]
            ELSE LET rest == DataViewList_slices(Tail(views), pool)
                 IN IF rest.status # "Ok" THEN rest
                    ELSE [status |-> "Ok",
                          slices |-> << Slice(pool, view.offset,
                                              view.offset + view.size) >>
                                        \o rest.slices]

----------------------------------------------------------------------------
(* AssetMetadata, AssetDescription *)

\* the width of the fixed-width asset name buffer (AssetName)
NameLen == 3

\* AssetType <-> its type code
AssetTypes == { "ResAidList", "ResXCueList" }

AssetType_into(t) == IF t = "ResAidList" THEN 12 ELSE 16

AssetType_try_from(code) ==
    IF code = 12 THEN [status |-> "Ok", asset_type |-> "ResAidList"]
    ELSE IF code = 16 THEN [status |-> "Ok", asset_type |-> "ResXCueList"]
    ELSE [status |-> "Err", asset_type |-> "ResAidList"]

\* the record is the name buffer followed by eight u32 fields
OFF_asset_type == NameLen
OFF_unk_1 == NameLen + 4
OFF_unk_2 == NameLen + 8
OFF_chunk_count == NameLen + 12
OFF_descriptor_ptr == NameLen + 16
OFF_descriptor_size == NameLen + 20
OFF_dataview_list_ptr == NameLen + 24
OFF_resource_size == NameLen + 28

ASSET_DESCRIPTION_SIZE == NameLen + 32

AssetMetadata_new(name, asset_type, unk_1, unk_2) ==
    [name |-> name, asset_type |-> asset_type, unk_1 |-> unk_1, unk_2 |-> unk_2]

\* impl From<AssetMetadata> for AssetDescription
AssetDescription_from_metadata(value) ==
    [metadata |-> value, chunk_count |-> 2,
     descriptor_ptr |-> 0, descriptor_size |-> 0,
     dataview_list_ptr |-> 0, resource_size |-> 0]

AssetDescription_to_bytes(d) ==
    d.metadata.name
        \o write_u32(AssetType_into(d.metadata.asset_type))
        \o write_u32(d.metadata.unk_1)
        \o write_u32(d.metadata.unk_2)
        \o write_u32(d.chunk_count)
        \o write_u32(d.descriptor_ptr)
        \o write_u32(d.descriptor_size)
        \o write_u32(d.dataview_list_ptr)
        \o write_u32(d.resource_size)

AssetDescription_from_bytes(b) ==
    LET t == AssetType_try_from(read_u32(b, OFF_asset_type))
    IN [status |-> t.status,
        description |->
          [metadata |-> AssetMetadata_new(SubSeq(b, 1, NameLen), t.asset_type,
                                          read_u32(b, OFF_unk_1),
                                          read_u32(b, OFF_unk_2)),
           chunk_count |-> read_u32(b, OFF_chunk_count),
           descriptor_ptr |-> read_u32(b, OFF_descriptor_ptr),
           descriptor_size |-> read_u32(b, OFF_descriptor_size),
           dataview_list_ptr |-> read_u32(b, OFF_dataview_list_ptr),
           resource_size |-> read_u32(b, OFF_resource_size)]]

\* std::str::from_utf8 on the bytes of the model: the ASCII bytes are valid,
\* the byte 0xFF is valid nowhere in UTF-8
from_utf8_ok(b) == \A k \in 1..Len(b) : b[k] < 128

\* the bytes of b before the first byte equal to sep (all of b if there is none)
RECURSIVE before_first(_, _)
before_first(b, sep) ==
    IF b = <<>> \/ Head(b) = sep THEN <<>>
    ELSE << Head(b) >> \o before_first(Tail(b), sep)

\* AssetMetadata::name
AssetMetadata_name(metadata) ==
    IF from_utf8_ok(metadata.name) THEN before_first(metadata.name, 0) ELSE <<>>

----------------------------------------------------------------------------
(* RawAsset *)

None == [some |-> FALSE, chunks |-> <<>>]
Some(chunks) == [some |-> TRUE, chunks |-> chunks]

RawAsset_new(metadata, descriptor_bytes, resource_chunks) ==
    [metadata |-> metadata, descriptor_bytes |-> descriptor_bytes,
     resource_chunks |-> resource_chunks]

----------------------------------------------------------------------------
(* BNLHeader *)

HEADER_SIZE == 40

BNLHeader_default ==
    [file_count |-> 0, flags |-> 0, unknown_2 |-> Zeros(5),
     asset_desc_loc |-> DataView(0, 0), buffer_views_loc |-> DataView(0, 0),
     buffer_loc |-> DataView(0, 0), descriptor_loc |-> DataView(0, 0)]

\* BNLHeader::to_bytes
BNLHeader_to_bytes(h) ==
    write_u16(h.file_count) \o << h.flags >> \o h.unknown_2
        \o write_u32(h.asset_desc_loc.offset) \o write_u32(h.asset_desc_loc.size)
        \o write_u32(h.buffer_views_loc.offset) \o write_u32(h.buffer_views_loc.size)
        \o write_u32(h.buffer_loc.offset) \o write_u32(h.buffer_loc.size)
        \o write_u32(h.descriptor_loc.offset) \o write_u32(h.descriptor_loc.size)

\* DataView::from_cursor at the 0-based position off
DataView_from_cursor(b, off) == DataView(read_u32(b, off), read_u32(b, off + 4))

\* the header fields from_bytes reads off the first 40 bytes
read_header(b) ==
    [file_count |-> read_u16(b, 0), flags |-> b[3], unknown_2 |-> SubSeq(b, 4, 8),
     asset_desc_loc |-> DataView_from_cursor(b, 8),
     buffer_views_loc |-> DataView_from_cursor(b, 16),
     buffer_loc |-> DataView_from_cursor(b, 24),
     descriptor_loc |-> DataView_from_cursor(b, 32)]

----------------------------------------------------------------------------
(* BNLFile::to_bytes *)

\* a variant that writes every view at the start of the buffer section
chunk_offset_zero(buffer_section) == 0

\* the offset a chunk is written at: the current end of the buffer section
chunk_offset(buffer_section) == Len(buffer_section)

\* chunks.iter().map(..): appends every chunk to the buffer section and
\* collects the view of each
RECURSIVE write_chunks(_, _)
write_chunks(chunks, buffer_section) ==
    IF chunks = <<>> THEN [views |-> <<>>, buffer_section |-> buffer_section]
    ELSE LET chunk == Head(chunks)
             view == DataView(U32(chunk_offset(buffer_section)), U32(Len(chunk)))
             rest == write_chunks(Tail(chunks), buffer_section \o chunk)
         IN [views |-> << view >> \o rest.views,
             buffer_section |-> rest.buffer_section]

\* a variant that writes every DataViewList pointer as 0
new_dataview_list_ptr_zero(buffer_views_section) == 0

\* asset_desc.dataview_list_ptr
new_dataview_list_ptr(buffer_views_section) == U32(Len(buffer_views_section))

\* a variant that counts the pointer from the start of the header
new_descriptor_ptr_absolute(descriptors_section) ==
    U32(HEADER_SIZE + Len(descriptors_section))

\* asset_desc.descriptor_ptr
new_descriptor_ptr(descriptors_section) == U32(Len(descriptors_section))

\* one iteration of the loop over self.assets: asset number i (from 1), with
\* the four sections as built so far in acc
to_bytes_asset(acc, i, asset) ==
    LET asset_desc0 == AssetDescription_from_metadata(asset.metadata)
        written == write_chunks(asset.resource_chunks.chunks, acc.buffer_section)
        num_chunks == Len(asset.resource_chunks.chunks)
        dvl == [size |-> U32(8 + 8 * num_chunks), num_views |-> U32(num_chunks),
                views |-> written.views]
        asset_desc1 ==
            IF asset.resource_chunks.some
            THEN [asset_desc0 EXCEPT
                    !.dataview_list_ptr =
                        new_dataview_list_ptr(acc.buffer_views_section),
                    !.resource_size = U32(bytes_required(dvl))]
            ELSE asset_desc0
        asset_desc ==
            [asset_desc1 EXCEPT
                !.descriptor_ptr = new_descriptor_ptr(acc.descriptors_section),
                !.descriptor_size = U32(Len(asset.descriptor_bytes))]
        start == (i - 1) * ASSET_DESCRIPTION_SIZE
    IN [asset_desc_section |->
            copy_from_slice(acc.asset_desc_section, start,
                            AssetDescription_to_bytes(asset_desc)),
        buffer_views_section |->
            IF asset.resource_chunks.some
            THEN acc.buffer_views_section \o DataViewList_to_bytes(dvl)
            ELSE acc.buffer_views_section,
        buffer_section |->
            IF asset.resource_chunks.some
            THEN written.buffer_section ELSE acc.buffer_section,
        descriptors_section |-> acc.descriptors_section \o asset.descriptor_bytes]

RECURSIVE to_bytes_loop(_, _, _)
to_bytes_loop(acc, i, as) ==
    IF i > Len(as) THEN acc
    ELSE to_bytes_loop(to_bytes_asset(acc, i, as[i]), i + 1, as)

\* the four sections built from the asset list
to_bytes_sections(as) ==
    to_bytes_loop([asset_desc_section |-> Zeros(ASSET_DESCRIPTION_SIZE * Len(as)),
                   buffer_views_section |-> <<>>,
                   buffer_section |-> <<>>,
                   descriptors_section |-> <<>>], 1, as)

\* file_count: self.assets.len() as u16
new_file_count(as) == U16(Len(as))

\* a variant that fills the other fields from the default header
to_bytes_header_default(as, h, sec) ==
    LET views == HEADER_SIZE + Len(sec.asset_desc_section)
        buffer == views + Len(sec.buffer_views_section)
        descriptors == buffer + Len(sec.buffer_section)
    IN [BNLHeader_default EXCEPT
          !.file_count = new_file_count(as),
          !.asset_desc_loc = DataView(HEADER_SIZE, Len(sec.asset_desc_section)),
          !.buffer_views_loc = DataView(views, Len(sec.buffer_views_section)),
          !.buffer_loc = DataView(buffer, Len(sec.buffer_section)),
          !.descriptor_loc = DataView(descriptors, Len(sec.descriptors_section))]

\* the header to_bytes stores in self.header
to_bytes_header(as, h, sec) ==
    LET asset_desc_offset == HEADER_SIZE
        asset_desc_size == Len(sec.asset_desc_section)
        buffer_views_offset == asset_desc_offset + asset_desc_size
        buffer_views_size == Len(sec.buffer_views_section)
        buffer_offset == buffer_views_offset + buffer_views_size
        buffer_size == Len(sec.buffer_section)
        descriptors_offset == buffer_offset + buffer_size
        descriptors_size == Len(sec.descriptors_section)
    IN [h EXCEPT
          !.file_count = new_file_count(as),
          !.asset_desc_loc = DataView(U32(asset_desc_offset), U32(asset_desc_size)),
          !.buffer_views_loc =
              DataView(U32(buffer_views_offset), U32(buffer_views_size)),
          !.buffer_loc = DataView(U32(buffer_offset), U32(buffer_size)),
          !.descriptor_loc = DataView(U32(descriptors_offset), U32(descriptors_size))]

\* a variant that writes the descriptors before the buffer
decompressed_bytes_swapped(sec) ==
    sec.asset_desc_section \o sec.buffer_views_section
        \o sec.descriptors_section \o sec.buffer_section

\* the four sections in the order to_bytes concatenates them
decompressed_bytes(sec) ==
    sec.asset_desc_section \o sec.buffer_views_section
        \o sec.buffer_section \o sec.descriptors_section

\* BNLFile::to_bytes : the new value of self.header and the bytes returned
BNLFile_to_bytes(as, h) ==
    LET sec == to_bytes_sections(as)
        new_header == to_bytes_header(as, h, sec)
    IN [header |-> new_header,
        bytes |-> BNLHeader_to_bytes(new_header)
                    \o compress_to_vec_zlib(decompressed_bytes(sec))]

----------------------------------------------------------------------------
(* BNLFile::from_bytes *)

Failed(status) == [status |-> status, header |-> BNLHeader_default, assets |-> <<>>]

\* cur.seek(SeekFrom::Start(loc.offset)); cur.read_exact(&mut buf[..loc.size])
read_exact_ok(b, offset, size) == size <= Len(b) - Min(offset, Len(b))

read_section(b, loc) ==
    IF read_exact_ok(b, loc.offset, loc.size)
    THEN [status |-> "Ok", bytes |-> Slice(b, loc.offset, loc.offset + loc.size)]
    ELSE [status |-> "DataReadError", bytes |-> <<>>]

\* a variant that gives Some of no chunks for a resource of size 0
read_resource_chunks_some(description, buffer_views_bytes, buffer_bytes) ==
    IF description.resource_size = 0
    THEN [status |-> "Ok", resource_chunks |-> Some(<<>>)]
    ELSE [status |-> "DataReadError", resource_chunks |-> None]

\* the resource chunks of one description
read_resource_chunks(description, buffer_views_bytes, buffer_bytes) ==
    IF description.resource_size = 0
    THEN [status |-> "Ok", resource_chunks |-> None]
    ELSE IF description.dataview_list_ptr > Len(buffer_views_bytes)
    THEN [status |-> "Panic", resource_chunks |-> None]   \* slice start out of range
    ELSE LET dvl == DataViewList_from_bytes(
                        Slice(buffer_views_bytes, description.dataview_list_ptr,
                              Len(buffer_views_bytes)))
         IN IF dvl.status # "Ok"
            THEN [status |-> "DataReadError", resource_chunks |-> None]
            ELSE LET sl == DataViewList_slices(dvl.dvl.views, buffer_bytes)
                 IN IF sl.status # "Ok"
                    THEN [status |-> "DataReadError", resource_chunks |-> None]
                    ELSE [status |-> "Ok", resource_chunks |-> Some(sl.slices)]

\* the loop over the num_descriptions records, the cursor at pos in bytes
RECURSIVE read_assets(_, _, _, _, _, _)
read_assets(bytes, pos, remaining, buffer_views_bytes, buffer_bytes, descriptor_bytes) ==
    IF remaining = 0 THEN [status |-> "Ok", assets |-> <<>>]
    ELSE IF ~ read_exact_ok(bytes, pos, ASSET_DESCRIPTION_SIZE)
    THEN [status |-> "DataReadError", assets |-> <<>>]
    ELSE
      LET d == AssetDescription_from_bytes(
                   Slice(bytes, pos, pos + ASSET_DESCRIPTION_SIZE))
          description == d.description
          desc_start == description.descriptor_ptr
          desc_end == desc_start + description.descriptor_size
      IN IF d.status # "Ok" THEN [status |-> "DataReadError", assets |-> <<>>]
         ELSE IF desc_end > Len(descriptor_bytes)
         THEN [status |-> "Panic", assets |-> <<>>]     \* slice end out of range
         ELSE
           LET chunks == read_resource_chunks(description, buffer_views_bytes,
                                              buffer_bytes)
           IN IF chunks.status # "Ok"
              THEN [status |-> chunks.status, assets |-> <<>>]
              ELSE
                LET rest == read_assets(bytes, pos + ASSET_DESCRIPTION_SIZE,
                                        remaining - 1, buffer_views_bytes,
                                        buffer_bytes, descriptor_bytes)
                IN IF rest.status # "Ok" THEN rest
                   ELSE [status |-> "Ok",
                         assets |->
                           << RawAsset_new(description.metadata,
                                           Slice(descriptor_bytes, desc_start, desc_end),
                                           chunks.resource_chunks) >>
                             \o rest.assets]

\* BNLFile::from_bytes
BNLFile_from_bytes(bnl_bytes) ==
    IF Len(bnl_bytes) < HEADER_SIZE
    THEN Failed("Panic")                                \* bnl_bytes[..40]
    ELSE
      LET h == read_header(bnl_bytes)
          inflated == decompress_to_vec_zlib(Slice(bnl_bytes, HEADER_SIZE, Len(bnl_bytes)))
          bytes == Slice(bnl_bytes, 0, HEADER_SIZE) \o inflated.bytes
          num_descriptions == h.asset_desc_loc.size \div ASSET_DESCRIPTION_SIZE
          asset_desc_bytes == read_section(bytes, h.asset_desc_loc)
          buffer_views_bytes == read_section(bytes, h.buffer_views_loc)
          buffer_bytes == read_section(bytes, h.buffer_loc)
          descriptor_bytes == read_section(bytes, h.descriptor_loc)
      IN IF inflated.status # "Ok" THEN Failed("DecompressionFailure")
         ELSE IF \/ asset_desc_bytes.status # "Ok"
                 \/ buffer_views_bytes.status # "Ok"
                 \/ buffer_bytes.status # "Ok"
                 \/ descriptor_bytes.status # "Ok"
         THEN Failed("DataReadError")
         ELSE
           LET r == read_assets(bytes, h.asset_desc_loc.offset, num_descriptions,
                                buffer_views_bytes.bytes, buffer_bytes.bytes,
                                descriptor_bytes.bytes)
           IN IF r.status # "Ok" THEN Failed(r.status)
              ELSE [status |-> "Ok", header |-> h, assets |-> r.assets]

----------------------------------------------------------------------------
(* CueListDescriptor, CueList  (src/src/asset/cuelist/mod.rs)               *)
(* A String is the sequence of its bytes; the model's strings are ASCII.    *)

TAB == 9
LF == 10

\* the pieces of b between the occurrences of sep (str::split)
RECURSIVE split(_, _)
split(b, sep) ==
    IF b = <<>> THEN << <<>> >>
    ELSE LET rest == split(Tail(b), sep)
         IN IF Head(b) = sep THEN << <<>> >> \o rest
            ELSE << << Head(b) >> \o Head(rest) >> \o Tail(rest)

\* s.lines().filter(|line| !line.is_empty())
non_empty_lines(s) == SelectSeq(split(s, LF), LAMBDA line : line # <<>>)

CueGroup_new(name, cues) == [name |-> name, cues |-> cues]

\* the loop of from_bytes over the (group name, entry) pairs: the groups
\* pushed so far, the group being filled
RECURSIVE group_lines(_, _, _)
group_lines(lines, groups, group) ==
    IF lines = <<>> THEN groups
    ELSE LET group_name == Head(lines)[1]
             entry == Head(lines)[2]
         IN IF group.name # group_name
            THEN group_lines(Tail(lines),
                             IF group.cues # <<>> THEN Append(groups, group)
                                                  ELSE groups,
                             CueGroup_new(group_name, << entry >>))
            ELSE group_lines(Tail(lines), groups,
                             [group EXCEPT !.cues = Append(@, entry)])

\* CueListDescriptor::from_bytes
CueListDescriptor_from_bytes(data) ==
    IF ~ from_utf8_ok(data)
    THEN [status |-> "ParseError", descriptor |-> [groups |-> <<>>]]
    ELSE LET parts == [k \in 1..Len(non_empty_lines(data)) |->
                          split(non_empty_lines(data)[k], TAB)]
         IN IF \E k \in 1..Len(parts) : Len(parts[k]) # 2
            THEN [status |-> "ParseError", descriptor |-> [groups |-> <<>>]]
            ELSE [status |-> "Ok",
                  descriptor |->
                    [groups |-> group_lines(parts, <<>>, CueGroup_new(<<>>, <<>>))]]

\* CueListDescriptor::validate
validate(d) ==
    \A g \in 1..Len(d.groups) :
        /\ d.groups[g].name # <<>>
        /\ \A c \in 1..Len(d.groups[g].cues) : d.groups[g].cues[c] # <<>>

\* the lines to_bytes formats, one per cue, in group order
RECURSIVE cue_lines(_)
cue_lines(groups) ==
    IF groups = <<>> THEN <<>>
    ELSE [c \in 1..Len(Head(groups).cues) |->
             Head(groups).name \o << TAB >> \o Head(groups).cues[c]]
         \o cue_lines(Tail(groups))

\* lines.join("\n")
RECURSIVE join(_, _)
join(lines, sep) ==
    IF lines = <<>> THEN <<>>
    ELSE IF Len(lines) = 1 THEN Head(lines)
    ELSE Head(lines) \o << sep >> \o join(Tail(lines), sep)

\* CueListDescriptor::to_bytes
CueListDescriptor_to_bytes(d) ==
    IF ~ validate(d) THEN [status |-> "ParseError", bytes |-> <<>>]
    ELSE [status |-> "Ok", bytes |-> join(cue_lines(d.groups), LF)]

\* CueListDescriptor::size : the length of the iterator over the Result that
\* to_bytes returns, one item for Ok and none for Err
CueListDescriptor_size(d) ==
    IF CueListDescriptor_to_bytes(d).status = "Ok" THEN 1 ELSE 0

\* usize::MAX, written as the -1 it is in two's complement: the iterator adds
\* 1 to it, with wrap-around, before the first use
USIZE_MAX == -1

wrapping_add(a, b) == IF a = USIZE_MAX THEN b - 1 ELSE a + b

\* CueListIterator::new
CueListIterator_new ==
    [current_group_index |-> 0, current_cue_index |-> USIZE_MAX]

\* Vec::get with a 0-based index
get(v, index) == IF index < Len(v) THEN << v[index + 1] >> ELSE <<>>

\* CueListIterator::next : the iterator after the call and the item returned,
\* << (group name, cue) >> for Some and << >> for None
CueListIterator_next(it, d) ==
    LET cue_index == wrapping_add(it.current_cue_index, 1)
        advanced == [it EXCEPT !.current_cue_index = cue_index]
        group == get(d.groups, it.current_group_index)
        moved == [current_group_index |-> it.current_group_index + 1,
                  current_cue_index |-> 0]
        next_group == get(d.groups, moved.current_group_index)
    IN IF group = <<>> THEN [it |-> advanced, item |-> <<>>]
       ELSE IF get(group[1].cues, cue_index) # <<>>
       THEN [it |-> advanced,
             item |-> << << group[1].name, get(group[1].cues, cue_index)[1] >> >>]
       ELSE IF next_group # <<>> /\ get(next_group[1].cues, 0) # <<>>
       THEN [it |-> moved,
             item |-> << << next_group[1].name, next_group[1].cues[1] >> >>]
       ELSE [it |-> moved, item |-> <<>>]

\* CueList::new : never fails
CueList_new(descriptor, virtual_res) == [descriptor |-> descriptor, data |-> virtual_res]

\* CueList::get_descriptor
get_descriptor(cue_list) == cue_list.descriptor

\* CueList::get_resource_chunks
get_resource_chunks(cue_list) ==
    IF Len(cue_list.data) = 0 THEN None ELSE Some(cue_list.data)

----------------------------------------------------------------------------
(* RawAsset <-> Asset<CueList> *)

NoValue == <<>>

\* a variant that accepts every type code
type_check_skipped(asset_type) == TRUE

\* the type check that comes first in to_asset and in get_asset
type_check(asset_type) == asset_type = "ResXCueList"

\* RawAsset::to_asset::<CueList> ; value is << the Asset >> when it succeeds
to_asset(raw) ==
    IF ~ type_check(raw.metadata.asset_type)
    THEN [status |-> "TypeMismatch", value |-> NoValue]
    ELSE LET d == CueListDescriptor_from_bytes(raw.descriptor_bytes)
         IN IF d.status # "Ok" THEN [status |-> "ParseError", value |-> NoValue]
            ELSE [status |-> "Ok",
                  value |-> << [metadata |-> raw.metadata,
                                asset |-> CueList_new(d.descriptor,
                                                      raw.resource_chunks.chunks)] >>]

\* Asset<CueList>::to_raw_asset
to_raw_asset(asset) ==
    LET b == CueListDescriptor_to_bytes(get_descriptor(asset.asset))
    IN IF b.status # "Ok" THEN [status |-> "ParseError", value |-> NoValue]
       ELSE [status |-> "Ok",
             value |-> << RawAsset_new(asset.metadata, b.bytes,
                                       get_resource_chunks(asset.asset)) >>]

----------------------------------------------------------------------------
(* BNLFile: lookup and mutation *)

\* a variant that finds the last asset of the name
find_last(as, name) ==
    IF \E k \in 1..Len(as) : AssetMetadata_name(as[k].metadata) = name
    THEN CHOOSE k \in 1..Len(as) :
            /\ AssetMetadata_name(as[k].metadata) = name
            /\ \A j \in (k + 1)..Len(as) : AssetMetadata_name(as[j].metadata) # name
    ELSE 0

\* position of the first asset whose name is `name`, 0 when there is none
\* (get_raw_asset / get_raw_asset_mut)
find(as, name) ==
    IF \E k \in 1..Len(as) : AssetMetadata_name(as[k].metadata) = name
    THEN CHOOSE k \in 1..Len(as) :
            /\ AssetMetadata_name(as[k].metadata) = name
            /\ \A j \in 1..(k - 1) : AssetMetadata_name(as[j].metadata) # name
    ELSE 0

\* BNLFile::get_raw_asset ; value is << the RawAsset >> when there is one
get_raw_asset(as, name) ==
    IF find(as, name) = 0 THEN [status |-> "None", value |-> NoValue]
    ELSE [status |-> "Some", value |-> << as[find(as, name)] >>]

\* BNLFile::get_asset::<CueList>
get_asset(as, name) ==
    IF find(as, name) = 0 THEN [status |-> "NotFound", value |-> NoValue]
    ELSE to_asset(as[find(as, name)])

\* a variant that keeps every asset of the type, decoded or not
kept_of_type(asset) == type_check(asset.metadata.asset_type)

\* whether get_assets::<CueList> pushes the asset: its type code is CueList's,
\* its descriptor parses, and CueList::new, which cannot fail, is Ok
kept(asset) ==
    /\ type_check(asset.metadata.asset_type)
    /\ CueListDescriptor_from_bytes(asset.descriptor_bytes).status = "Ok"

\* BNLFile::get_assets::<CueList> : the loop over the assets
RECURSIVE get_assets(_)
get_assets(as) ==
    IF as = <<>> THEN <<>>
    ELSE LET asset == Head(as)
             d == CueListDescriptor_from_bytes(asset.descriptor_bytes)
         IN IF kept(asset)
            THEN << CueList_new(d.descriptor,
                                from_slices(asset.resource_chunks.chunks)) >>
                     \o get_assets(Tail(as))
            ELSE get_assets(Tail(as))

\* the closures the model passes to modify_asset: one that changes nothing, one that fails
\* after changing its argument, one that renames the asset and drops its
\* resource data, one that leaves an empty cue
Closures == { "keep", "fail", "rename", "blank_cue" }

RenamedTo == << 99 >> \o Zeros(NameLen - 1)

\* f(&mut asset) : the asset as f leaves it and what f returns
apply_closure(f, asset) ==
    CASE f = "keep" -> [status |-> "Ok", asset |-> asset]
      [] f = "fail" ->
            [status |-> "ParseError",
             asset |-> [asset EXCEPT !.asset.descriptor.groups = <<>>,
                                     !.asset.data = << << 7 >> >>]]
      [] f = "rename" ->
            [status |-> "Ok",
             asset |-> [asset EXCEPT !.metadata.name = RenamedTo,
                                     !.asset.data = <<>>]]
      [] f = "blank_cue" ->
            [status |-> "Ok",
             asset |-> [asset EXCEPT !.asset.descriptor.groups =
                                        << CueGroup_new(<< 97 >>, << <<>> >>) >>]]

\* a variant that removes the asset and pushes its replacement to the end
store_at_end(as, k, raw) ==
    Append(SubSeq(as, 1, k - 1) \o SubSeq(as, k + 1, Len(as)), raw)

\* the assignment `*raw_asset = ...` of modify_asset
store(as, k, raw) == [as EXCEPT ![k] = raw]

\* a variant that runs the closure on the stored asset itself
modify_asset_in_place(as, name, f) ==
    LET k == find(as, name)
        asset == to_asset(as[k])
        changed == apply_closure(f, asset.value[1])
        raw == to_raw_asset(changed.asset)
    IN IF k = 0 THEN [status |-> "NotFound", assets |-> as]
       ELSE IF asset.status # "Ok" THEN [status |-> asset.status, assets |-> as]
       ELSE IF raw.status # "Ok" THEN [status |-> raw.status, assets |-> as]
       ELSE [status |-> changed.status, assets |-> store(as, k, raw.value[1])]

\* BNLFile::modify_asset::<CueList, F> : what it returns and the asset list
\* it leaves
modify_asset(as, name, f) ==
    LET k == find(as, name)
        asset == to_asset(as[k])
        changed == apply_closure(f, asset.value[1])
        raw == to_raw_asset(changed.asset)
    IN IF k = 0 THEN [status |-> "NotFound", assets |-> as]
       ELSE IF asset.status # "Ok" THEN [status |-> asset.status, assets |-> as]
       ELSE IF changed.status # "Ok" THEN [status |-> changed.status, assets |-> as]
       ELSE IF raw.status # "Ok" THEN [status |-> raw.status, assets |-> as]
       ELSE [status |-> "Ok", assets |-> store(as, k, raw.value[1])]

\* a variant that inserts at the front
append_raw_asset_front(as, new_raw_asset) == << new_raw_asset >> \o as

\* BNLFile::append_raw_asset
append_raw_asset(as, new_raw_asset) == Append(as, new_raw_asset)

\* BNLFile::append_asset::<CueList>
append_asset(as, metadata, new_asset) ==
    LET b == CueListDescriptor_to_bytes(get_descriptor(new_asset))
    IN IF b.status # "Ok" THEN [status |-> "ParseError", assets |-> as]
       ELSE [status |-> "Ok",
             assets |-> append_raw_asset(as,
                            RawAsset_new(metadata, b.bytes,
                                         get_resource_chunks(new_asset)))]

----------------------------------------------------------------------------
(* BitStream  (src/src/utils/bitstream.rs)                                   *)
(* A u8 is an integer 0..255.  A u32 is the sequence of its 32 bits, lowest  *)
(* bit first, so that all 32 bits of a read are kept.                        *)

\* bit k of an integer, k counted from the lowest bit
BitOf(v, k) == (v \div (2 ^ k)) % 2

\* u8 & u8, u8 | u8 and !u8
and_u8(a, b) ==
    LET RECURSIVE upto(_)
        upto(k) == IF k = 8 THEN 0
                   ELSE BitOf(a, k) * BitOf(b, k) * (2 ^ k) + upto(k + 1)
    IN upto(0)

or_u8(a, b) == a + b - and_u8(a, b)

not_u8(a) == 255 - a

ZERO_U32 == [k \in 1..32 |-> 0]

\* BitStream::new
BitStream_new(bytes) == [bit_cursor |-> 0, bytes |-> bytes]

\* BitStream::get_u8_parts : high is << >> for None
get_u8_parts(bytes, starting_byte, offset) ==
    IF starting_byte >= Len(bytes)
    THEN [status |-> "Err", high |-> <<>>, low |-> 0]
    ELSE LET low_mask == ((2 ^ (8 - offset)) - 1) % 256
             low_bits == and_u8(bytes[starting_byte + 1] \div (2 ^ offset), low_mask)
         IN IF offset = 0 \/ starting_byte + 1 >= Len(bytes)
            THEN [status |-> "Ok", high |-> <<>>, low |-> low_bits]
            ELSE LET high_mask == not_u8(low_mask)
                     shifted == (bytes[starting_byte + 2] * (2 ^ (8 - offset))) % 256
                     high_bits == and_u8(shifted, high_mask)
                 IN [status |-> "Ok",
                     high |-> << and_u8(high_bits, high_mask) >>,
                     low |-> and_u8(low_bits, low_mask)]

\* ret |= byte << bits_read on a u32 : the bits shifted past bit 31 are lost
or_shifted(ret, byte, bits_read) ==
    [k \in 1..32 |->
        IF k - 1 >= bits_read /\ k - 1 - bits_read < 8
           /\ BitOf(byte, k - 1 - bits_read) = 1
        THEN 1 ELSE ret[k]]

\* the loop of get_bits from one iteration on ; offset is the one computed
\* before the loop
RECURSIVE get_bits_loop(_, _, _, _, _, _)
get_bits_loop(bytes, offset, num_bits, first_bit, bits_read, ret) ==
    IF ~(bits_read < num_bits) THEN [status |-> "Ok", value |-> ret]
    ELSE LET num_read == Min(8 - offset, num_bits - bits_read)
             parts == get_u8_parts(bytes, first_bit \div 8, first_bit % 8)
             mask == (2 ^ num_read) - 1
             whole == or_u8(IF parts.high = <<>> THEN 0 ELSE parts.high[1], parts.low)
             byte == and_u8(whole, mask)
         IN IF parts.status # "Ok" THEN [status |-> "Err", value |-> ZERO_U32]
            ELSE get_bits_loop(bytes, offset, num_bits, first_bit + num_read,
                               bits_read + num_read, or_shifted(ret, byte, bits_read))

\* BitStream::get_bits.  2u32.pow(32) overflows: a build with overflow checks
\* panics there, a build without them wraps to 0 and 0 - 1 wraps to all ones.
get_bits(bytes, overflow_checks, first_bit, num_bits) ==
    LET looped == get_bits_loop(bytes, first_bit % 8, num_bits, first_bit, 0, ZERO_U32)
    IN IF looped.status # "Ok" THEN looped
       ELSE IF num_bits >= 32
       THEN IF overflow_checks THEN [status |-> "Panic", value |-> ZERO_U32]
            ELSE looped
       ELSE [status |-> "Ok",
             value |-> [k \in 1..32 |-> IF k <= num_bits THEN looped.value[k] ELSE 0]]

\* BitStream::read : the cursor after the call and what the call returns
BitStream_read(bytes, overflow_checks, bit_cursor, num_bits) ==
    LET ret == get_bits(bytes, overflow_checks, bit_cursor, num_bits)
    IN [bit_cursor |-> IF ret.status = "Ok" THEN bit_cursor + num_bits ELSE bit_cursor,
        status |-> ret.status, value |-> ret.value]

----------------------------------------------------------------------------
(* The inputs of the model *)

MaxAssets == 2

pad(name) == name \o Zeros(NameLen - Len(name))

NameA == pad(<< 97 >>)
NameB == pad(<< 98 >>)
\* the name "a" again, with bytes other than NUL after the terminator
NameA_padded == << 97, 0 >> \o [k \in 1..(NameLen - 2) |-> 120]

\* the names the model looks assets up by: "a", "b" and "c"
LookupNames == { << 97 >>, << 98 >>, << 99 >> }

\* descriptors: two groups, a line without a tab, not UTF-8
TwoGroups == << 97, TAB, 98, LF, 98, TAB, 97 >>
NoTab == << 97 >>
NotUtf8 == << 255 >>

AssetPool ==
    { RawAsset_new(AssetMetadata_new(NameA, "ResXCueList", 1, 2), TwoGroups,
                   Some(<< << 1, 2 >>, <<>>, << 3 >> >>)),
      RawAsset_new(AssetMetadata_new(NameA_padded, "ResAidList", 0, 1), NotUtf8,
                   Some(<<>>)),
      RawAsset_new(AssetMetadata_new(NameB, "ResXCueList", 0, 0), NoTab, None) }

\* the typed assets the model appends: one that encodes, one whose descriptor
\* has an empty cue and does not
CueListPool ==
    { CueList_new([groups |-> << CueGroup_new(<< 98 >>, << << 97 >>, << 98 >> >>) >>],
                  << << 5 >> >>),
      CueList_new([groups |-> << CueGroup_new(<< 98 >>, << <<>> >>) >>], <<>>) }

MetadataPool == { AssetMetadata_new(NameB, "ResXCueList", 3, 0) }

----------------------------------------------------------------------------
(* Malformed archives: an encoded archive changed in one place *)

Malformations ==
    { "truncated", "not_zlib", "section_past_end", "descriptor_size",
      "dataview_list_ptr", "view_offset", "view_size" }

\* an archive that is well-formed except that the header's file_count is one
\* more than the number of records in the asset-description section
Miscounted == "file_count"

\* the inflated payload starts after the header and the zlib stream header
PAYLOAD == HEADER_SIZE + Len(ZlibHeader)

\* the offset in the file of the byte at offset off of the logical buffer
\* (header + inflated payload), off >= 40
in_file(off) == off + Len(ZlibHeader)

\* whether the malformation applies: the later ones need a first asset, with
\* a data view for the last two
applies(bnl_bytes, as, kind) ==
    CASE kind \in { "intact", "truncated", "not_zlib", "section_past_end",
                    Miscounted } -> TRUE
      [] kind \in { "descriptor_size", "dataview_list_ptr" } -> Len(as) > 0
      [] kind \in { "view_offset", "view_size" } ->
            /\ Len(as) > 0
            /\ as[1].resource_chunks.some
            /\ Len(as[1].resource_chunks.chunks) > 0

malform(bnl_bytes, kind) ==
    LET h == read_header(bnl_bytes)
        record == in_file(h.asset_desc_loc.offset)
        \* the first asset's DataViewList is the first of the section
        view == in_file(h.buffer_views_loc.offset) + 8
    IN CASE kind = "intact" -> bnl_bytes
         [] kind = Miscounted ->
                copy_from_slice(bnl_bytes, 0, write_u16(h.file_count + 1))
         [] kind = "truncated" -> SubSeq(bnl_bytes, 1, HEADER_SIZE - 1)
         [] kind = "not_zlib" -> SubSeq(bnl_bytes, 1, HEADER_SIZE) \o << 0 >>
         [] kind = "section_past_end" ->
                patch_u32(bnl_bytes, 36, h.descriptor_loc.size + 1)
         [] kind = "descriptor_size" ->
                patch_u32(bnl_bytes, record + OFF_descriptor_size,
                          h.descriptor_loc.size + 1)
         [] kind = "dataview_list_ptr" ->
                patch_u32(patch_u32(bnl_bytes, record + OFF_dataview_list_ptr,
                                    h.buffer_views_loc.size + 1),
                          record + OFF_resource_size, 8)
         [] kind = "view_offset" -> patch_u32(bnl_bytes, view, h.buffer_loc.size + 1)
         [] kind = "view_size" -> patch_u32(bnl_bytes, view + 4, h.buffer_loc.size + 1)

----------------------------------------------------------------------------
(* AidListDescriptor (src/src/asset/aidlist/mod.rs); an asset id is an
   AssetName, NameLen bytes wide *)

\* AidListDescriptor::from_bytes
AidListDescriptor_from_bytes(data) ==
    IF Len(data) % NameLen # 0
    THEN [status |-> "ParseError", descriptor |-> [asset_ids |-> <<>>]]
    ELSE [status |-> "Ok",
          descriptor |->
            [asset_ids |-> [k \in 1..(Len(data) \div NameLen) |->
                              Slice(data, (k - 1) * NameLen, k * NameLen)]]]

\* AidListDescriptor::size
AidListDescriptor_size(d) == Len(d.asset_ids) * NameLen

\* AidListDescriptor::to_bytes
AidListDescriptor_to_bytes(d) == Concat(d.asset_ids)

----------------------------------------------------------------------------
(* The BNLFile of lib.rs, which keeps the four sections as they were read and
   the AssetDescription records, and is updated in place *)

\* description.asset_desc_index = i
with_index(d, i) ==
    [metadata |-> d.metadata, chunk_count |-> d.chunk_count,
     descriptor_ptr |-> d.descriptor_ptr, descriptor_size |-> d.descriptor_size,
     dataview_list_ptr |-> d.dataview_list_ptr, resource_size |-> d.resource_size,
     asset_desc_index |-> i]

\* BNLFile::from_bytes (lib.rs) on the sections of an archive of the list as
LibFile(as) ==
    LET sec == to_bytes_sections(as)
    IN [asset_desc_bytes |-> sec.asset_desc_section,
        buffer_views_bytes |-> sec.buffer_views_section,
        buffer_bytes |-> sec.buffer_section,
        descriptor_bytes |-> sec.descriptors_section,
        asset_descriptions |->
          [k \in 1..Len(as) |->
             with_index(AssetDescription_from_bytes(
                            Slice(sec.asset_desc_section,
                                  (k - 1) * ASSET_DESCRIPTION_SIZE,
                                  k * ASSET_DESCRIPTION_SIZE)).description,
                        k - 1)]]

NoLib == LibFile(<<>>)

\* BNLFile::get_asset_description : the position of the first description of
\* that name, 0 when there is none
get_asset_description(file, name) ==
    LET hits == { k \in 1..Len(file.asset_descriptions) :
                    AssetMetadata_name(file.asset_descriptions[k].metadata) = name }
    IN IF hits = {} THEN 0 ELSE CHOOSE k \in hits : \A j \in hits : k <= j

\* BNLFile::update_asset_description
update_asset_description(file, asset_desc) ==
    [file EXCEPT !.asset_desc_bytes =
        copy_from_slice(@, asset_desc.asset_desc_index * ASSET_DESCRIPTION_SIZE,
                        AssetDescription_to_bytes(asset_desc))]

\* the bytes get_descriptor parses: &self.descriptor_bytes[descriptor_ptr..]
descriptor_slice(file, asset_desc) ==
    Slice(file.descriptor_bytes, asset_desc.descriptor_ptr,
          Len(file.descriptor_bytes))

\* BNLFile::get_descriptor::<AidListDescriptor>
BNLFile_get_descriptor(file, name) ==
    LET k == get_asset_description(file, name)
        asset_desc == file.asset_descriptions[k]
    IN IF k = 0 THEN [status |-> "NotFound", descriptor |-> [asset_ids |-> <<>>]]
       ELSE IF asset_desc.metadata.asset_type # "ResAidList"
       THEN [status |-> "TypeMismatch", descriptor |-> [asset_ids |-> <<>>]]
       ELSE IF asset_desc.descriptor_ptr > Len(file.descriptor_bytes)
       THEN [status |-> "Panic", descriptor |-> [asset_ids |-> <<>>]]
       ELSE AidListDescriptor_from_bytes(descriptor_slice(file, asset_desc))

\* BNLFile::get_dataview_list
get_dataview_list(file, offset) ==
    IF offset > Len(file.buffer_views_bytes)
    THEN [status |-> "Panic", dvl |-> [size |-> 0, num_views |-> 0, views |-> <<>>]]
    ELSE DataViewList_from_bytes(
             Slice(file.buffer_views_bytes, offset, Len(file.buffer_views_bytes)))

\* DataViewList::write_bytes : the data laid over the views in order; fails
\* when the views cannot hold it or lie outside the buffer
RECURSIVE DataViewList_write_bytes(_, _, _)
DataViewList_write_bytes(views, data, buffer) ==
    IF data = <<>> THEN [status |-> "Ok", buffer |-> buffer]
    ELSE IF views = <<>> THEN [status |-> "Err", buffer |-> buffer]
    ELSE LET view == Head(views)
             n == Min(view.size, Len(data))
         IN IF view.offset + view.size > Len(buffer)
            THEN [status |-> "Err", buffer |-> buffer]
            ELSE DataViewList_write_bytes(
                     Tail(views), SubSeq(data, n + 1, Len(data)),
                     copy_from_slice(buffer, view.offset, SubSeq(data, 1, n)))

\* data: Option<&Vec<u8>>
NoData == [some |-> FALSE, bytes |-> <<>>]
SomeData(bytes) == [some |-> TRUE, bytes |-> bytes]

\* what update_asset_from_descriptor returns before it has written anything
Refused(status, file) == [status |-> status, file |-> file]

\* the part of update_asset_from_descriptor after the descriptor section was
\* written: the data, then the asset-description record
update_data_and_description(file, asset_desc, data) ==
    IF ~ data.some
    THEN [status |-> "Ok", file |-> update_asset_description(file, asset_desc)]
    ELSE LET dvl == get_dataview_list(file, asset_desc.dataview_list_ptr)
             written == DataViewList_write_bytes(dvl.dvl.views, data.bytes,
                                                 file.buffer_bytes)
         IN IF dvl.status = "Panic" THEN [status |-> "Panic", file |-> file]
            ELSE IF dvl.status # "Ok" THEN [status |-> "ParseError", file |-> file]
            ELSE IF written.status # "Ok"
            THEN [status |-> "ParseError", file |-> file]
            ELSE [status |-> "Ok",
                  file |-> update_asset_description(
                               [file EXCEPT !.buffer_bytes = written.buffer],
                               asset_desc)]

\* BNLFile::update_asset_from_descriptor::<AidListDescriptor> : what it returns
\* and the file it leaves
update_asset_from_descriptor(file, name, descriptor, data) ==
    LET k == get_asset_description(file, name)
        asset_desc0 == file.asset_descriptions[k]
        prev_descriptor == BNLFile_get_descriptor(file, name)
        new_size == AidListDescriptor_size(descriptor)
        prev_size == AidListDescriptor_size(prev_descriptor.descriptor)
        asset_desc == [asset_desc0 EXCEPT !.descriptor_size = U32(new_size)]
        start == asset_desc.descriptor_ptr
        end == start + new_size
        bytes == AidListDescriptor_to_bytes(descriptor)
    IN IF k = 0 THEN Refused("NotFound", file)
       ELSE IF asset_desc0.metadata.asset_type # "ResAidList"
       THEN Refused("TypeMismatch", file)
       ELSE IF prev_descriptor.status # "Ok"
       THEN Refused(prev_descriptor.status, file)
       ELSE IF new_size > prev_size THEN Refused("ParseError", file)
       ELSE IF end > Len(file.descriptor_bytes) \/ Len(bytes) # end - start
       THEN Refused("Panic", file)        \* slice range, copy_from_slice length
       ELSE update_data_and_description(
                [file EXCEPT !.descriptor_bytes = copy_from_slice(@, start, bytes)],
                asset_desc, data)

\* whether the description's descriptor range and the range start1..end1 meet,
\* as the filter of get_assets_occupying_descriptor_range decides it
occupies(asset_desc, start1, end1) ==
    LET start2 == asset_desc.descriptor_ptr
        end2 == start2 + asset_desc.descriptor_size
    IN start1 < end2 /\ start2 < end1

\* BNLFile::get_assets_occupying_descriptor_range : the positions, in order,
\* of the descriptions it returns
RECURSIVE occupying_from(_, _, _, _)
occupying_from(file, k, start1, end1) ==
    IF k > Len(file.asset_descriptions) THEN <<>>
    ELSE (IF occupies(file.asset_descriptions[k], start1, end1)
          THEN << k >> ELSE <<>>)
            \o occupying_from(file, k + 1, start1, end1)

get_assets_occupying_descriptor_range(file, start1, end1) ==
    occupying_from(file, 1, start1, end1)

----------------------------------------------------------------------------
(* Inputs of the BNLFile of lib.rs *)

OneId == << NameA >>
TwoIds == << NameB, NameA >>

\* archives are built from: two AidList assets of one id each, the first with
\* a resource chunk, and a CueList asset
LibAssetPool ==
    { RawAsset_new(AssetMetadata_new(NameA, "ResAidList", 0, 0),
                   Concat(OneId), Some(<< << 1, 2 >> >>)),
      RawAsset_new(AssetMetadata_new(NameB, "ResAidList", 0, 0),
                   Concat(OneId), None),
      RawAsset_new(AssetMetadata_new(RenamedTo, "ResXCueList", 0, 0),
                   TwoGroups, None) }

RECURSIVE SeqsUpTo(_, _)
SeqsUpTo(S, n) ==
    IF n = 0 THEN { <<>> }
    ELSE SeqsUpTo(S, n - 1)
            \cup { Append(q, x) : q \in { r \in SeqsUpTo(S, n - 1) : Len(r) = n - 1 },
                                  x \in S }

\* the descriptors update_asset_from_descriptor is called with
AidListPool == { [asset_ids |-> <<>>], [asset_ids |-> << NameB >>],
                 [asset_ids |-> TwoIds] }

DataPool == { NoData, SomeData(<< 9 >>) }

\* the largest bound of a queried range
MaxRange == 2 * NameLen + 1

NoLibResult ==
    [op |-> "none", status |-> "None", name |-> <<>>, range |-> <<0, 0>>,
     occupants |-> <<>>]

----------------------------------------------------------------------------
(* The archive as a state machine *)

NoBytes == [some |-> FALSE, bytes |-> <<>>]
NoFile == [input |-> "none", status |-> "None", header |-> BNLHeader_default,
           assets |-> <<>>]

\* arg is << the asset >> for append_raw_asset, which takes it by value
NoResult == [op |-> "none", status |-> "None", arg |-> <<>>]

Returned(op, status) == [op |-> op, status |-> status, arg |-> <<>>]

\* what a by-name operation returned, with the name it was called with
ReturnedFor(name, op, status) == [op |-> op, status |-> status, arg |-> << name >>]

\* no descriptor drawn, no call of next made, no stream opened
NoDescriptor == [groups |-> <<>>]

NoIter == [it |-> CueListIterator_new, yielded |-> <<>>, ended |-> FALSE, calls |-> 0]

NoLast == [op |-> "none", first_bit |-> 0, num_bits |-> 0, status |-> "None", value |-> ZERO_U32]

NoStream == [bytes |-> <<>>, bit_cursor |-> 0, overflow_checks |-> FALSE, last |-> NoLast]


Init ==
    /\ assets = <<>>
    /\ header = BNLHeader_default
    /\ encoded = NoBytes
    /\ decoded = NoFile
    /\ result = NoResult
    /\ slices = <<>>
    /\ read = NoRead
    /\ made = NoDvl
    /\ lib = NoLib
    /\ libResult = NoLibResult
    /\ cueDescriptor = NoDescriptor
    /\ iter = NoIter
    /\ stream = NoStream

\* bnl.append_raw_asset(a)
AppendRawAsset(a) ==
    /\ Len(assets) < MaxAssets
    /\ assets' = append_raw_asset(assets, a)
    /\ result' = [op |-> "append_raw_asset", status |-> "Ok", arg |-> << a >>]
    /\ encoded' = NoBytes
    /\ decoded' = NoFile
    /\ UNCHANGED header
    /\ UNCHANGED <<vrVars, libVars, cueVars, stream>>

\* bnl.append_asset::<CueList>(metadata, new_asset)
AppendAsset(metadata, new_asset) ==
    /\ Len(assets) < MaxAssets
    /\ \E r \in { append_asset(assets, metadata, new_asset) } :
          /\ assets' = r.assets
          /\ result' = Returned("append_asset", r.status)
    /\ encoded' = NoBytes
    /\ decoded' = NoFile
    /\ UNCHANGED header
    /\ UNCHANGED <<vrVars, libVars, cueVars, stream>>

\* bnl.modify_asset::<CueList, _>(name, f)
ModifyAsset(name, f) ==
    /\ \E r \in { modify_asset(assets, name, f) } :
          /\ assets' = r.assets
          /\ result' = ReturnedFor(name, "modify_asset", r.status)
    /\ encoded' = NoBytes
    /\ decoded' = NoFile
    /\ UNCHANGED header
    /\ UNCHANGED <<vrVars, libVars, cueVars, stream>>

\* bnl.get_raw_asset(name) ; the asset returned is kept in result.arg, after
\* the name
GetRawAsset(name) ==
    /\ \E r \in { get_raw_asset(assets, name) } :
          result' = [op |-> "get_raw_asset", status |-> r.status,
                     arg |-> << name >> \o r.value]
    /\ UNCHANGED <<assets, header, encoded, decoded>>
    /\ UNCHANGED <<vrVars, libVars, cueVars, stream>>

\* bnl.get_asset::<CueList>(name)
GetAsset(name) ==
    /\ result' = ReturnedFor(name, "get_asset", get_asset(assets, name).status)
    /\ UNCHANGED <<assets, header, encoded, decoded>>
    /\ UNCHANGED <<vrVars, libVars, cueVars, stream>>

\* bnl.get_assets::<CueList>() ; the list returned is kept in result.arg
GetAssets ==
    /\ result' = [op |-> "get_assets", status |-> "Ok", arg |-> get_assets(assets)]
    /\ UNCHANGED <<assets, header, encoded, decoded>>
    /\ UNCHANGED <<vrVars, libVars, cueVars, stream>>

\* bnl.to_bytes()
ToBytes ==
    /\ \E r \in { BNLFile_to_bytes(assets, header) } :
          /\ header' = r.header
          /\ encoded' = [some |-> TRUE, bytes |-> r.bytes]
    /\ decoded' = NoFile
    /\ UNCHANGED <<assets, result>>
    /\ UNCHANGED <<vrVars, libVars, cueVars, stream>>

\* BNLFile::from_bytes on the bytes to_bytes returned, intact or malformed
FromBytes(kind) ==
    /\ encoded.some
    /\ applies(encoded.bytes, assets, kind)
    /\ \E file \in { BNLFile_from_bytes(malform(encoded.bytes, kind)) } :
          decoded' = [input |-> IF kind \in Malformations THEN "malformed" ELSE kind,
                      status |-> file.status,
                      header |-> file.header, assets |-> file.assets]
    /\ UNCHANGED <<assets, header, encoded, result>>
    /\ UNCHANGED <<vrVars, libVars, cueVars, stream>>

Next ==
    \/ \E a \in AssetPool : AppendRawAsset(a)
    \/ \E metadata \in MetadataPool, new_asset \in CueListPool :
          AppendAsset(metadata, new_asset)
    \/ \E name \in LookupNames, f \in Closures : ModifyAsset(name, f)
    \/ ToBytes
    \/ \E kind \in Malformations \cup { "intact", Miscounted } : FromBytes(kind)

Spec == Init /\ [][Next]_vars

----------------------------------------------------------------------------
(* The file_count of long asset lists.  The sections of a list of 2^16
   assets are beyond what can be enumerated, so this specification applies
   only the file_count to_bytes stores in the header. *)

MaxShortList == 16
U16_MAX == 65535

\* list lengths: the short ones and those around the largest u16
ListLengths == (0..MaxShortList) \cup { U16_MAX, U16_MAX + 1, U16_MAX + 2 }

InitCount ==
    /\ \E n \in ListLengths, a \in AssetPool : assets = [k \in 1..n |-> a]
    /\ header = BNLHeader_default
    /\ encoded = NoBytes
    /\ decoded = NoFile
    /\ result = NoResult
    /\ slices = <<>>
    /\ read = NoRead
    /\ made = NoDvl
    /\ lib = NoLib
    /\ libResult = NoLibResult
    /\ cueDescriptor = NoDescriptor
    /\ iter = NoIter
    /\ stream = NoStream

\* the file_count of the header to_bytes stores
ToBytesFileCount ==
    /\ result.op = "none"
    /\ header' = [header EXCEPT !.file_count = new_file_count(assets)]
    /\ result' = Returned("to_bytes", "Ok")
    /\ UNCHANGED <<assets, encoded, decoded>>
    /\ UNCHANGED <<vrVars, libVars, cueVars, stream>>

NextCount == ToBytesFileCount

SpecCount == InitCount /\ [][NextCount]_vars

\* a resource over any of the slice lists and any request on it
InitVR ==
    /\ assets = <<>>
    /\ header = BNLHeader_default
    /\ encoded = NoBytes
    /\ decoded = NoFile
    /\ result = NoResult
    /\ slices \in { from_slices(sl) : sl \in SliceLists }
    /\ read \in { Request(start_offset, get_size) :
                     start_offset \in 0..MaxRead, get_size \in 0..MaxRead }
    /\ made = NoDvl
    /\ lib = NoLib
    /\ libResult = NoLibResult
    /\ cueDescriptor = NoDescriptor
    /\ iter = NoIter
    /\ stream = NoStream

NextVR == GetBytes

SpecVR == InitVR /\ [][NextVR]_vars

\* a resource over any of the slice lists, measured and read as a whole: the
\* request is get_bytes(0, len())
InitWhole ==
    /\ assets = <<>>
    /\ header = BNLHeader_default
    /\ encoded = NoBytes
    /\ decoded = NoFile
    /\ result = NoResult
    /\ slices \in { from_slices(sl) : sl \in SliceLists }
    /\ read = Request(0, len(slices))
    /\ made = NoDvl
    /\ lib = NoLib
    /\ libResult = NoLibResult
    /\ cueDescriptor = NoDescriptor
    /\ iter = NoIter
    /\ stream = NoStream

NextWhole ==
    \/ ResourceLen
    \/ ResourceIsEmpty
    \/ GetAllBytes
    \/ GetBytes

SpecWhole == InitWhole /\ [][NextWhole]_vars

----------------------------------------------------------------------------
(* The operations that address an asset by name or by type, on any archive   *)
(* that append_raw_asset can build from the pool.                            *)

InitLookup ==
    /\ assets \in SeqsUpTo(AssetPool, MaxAssets)
    /\ header = BNLHeader_default
    /\ encoded = NoBytes
    /\ decoded = NoFile
    /\ result = NoResult
    /\ slices = <<>>
    /\ read = NoRead
    /\ made = NoDvl
    /\ lib = NoLib
    /\ libResult = NoLibResult
    /\ cueDescriptor = NoDescriptor
    /\ iter = NoIter
    /\ stream = NoStream

NextLookup ==
    \/ \E name \in LookupNames : GetRawAsset(name)
    \/ \E name \in LookupNames : GetAsset(name)
    \/ GetAssets
    \/ \E name \in LookupNames, f \in Closures : ModifyAsset(name, f)

SpecLookup == InitLookup /\ [][NextLookup]_vars

----------------------------------------------------------------------------
(* A CueListDescriptor on its own: its codec, its size and its iterator.     *)

\* the most groups a descriptor of the model has, and the most calls of next
MaxGroups == 3
MaxNext == 8

\* groups named "a" or "b" with no cue, one cue or two
CueGroups ==
    { CueGroup_new(name, cues) :
        name \in { << 97 >>, << 98 >> },
        cues \in { <<>>, << << 120 >> >>, << << 120 >>, << 121 >> >> } }

\* the descriptors of up to MaxGroups of these groups
CueDescriptors == { [groups |-> gs] : gs \in SeqsUpTo(CueGroups, MaxGroups) }

InitCues ==
    /\ assets = <<>>
    /\ header = BNLHeader_default
    /\ encoded = NoBytes
    /\ decoded = NoFile
    /\ result = NoResult
    /\ slices = <<>>
    /\ read = NoRead
    /\ made = NoDvl
    /\ lib = NoLib
    /\ libResult = NoLibResult
    /\ cueDescriptor \in CueDescriptors
    /\ iter = NoIter
    /\ stream = NoStream

\* descriptor.cues().next() ; ended records that a call has returned None
CuesNext ==
    /\ iter.calls < MaxNext
    /\ \E r \in { CueListIterator_next(iter.it, cueDescriptor) } :
          iter' = [it |-> r.it, yielded |-> iter.yielded \o r.item,
                   ended |-> iter.ended \/ r.item = <<>>,
                   calls |-> iter.calls + 1]
    /\ UNCHANGED <<cueDescriptor, stream>>
    /\ UNCHANGED <<bnlVars, vrVars, libVars>>

\* descriptor.to_bytes() ; the bytes are kept in result.arg
DescriptorToBytes ==
    /\ \E r \in { CueListDescriptor_to_bytes(cueDescriptor) } :
          result' = [op |-> "descriptor_to_bytes", status |-> r.status,
                     arg |-> << r.bytes >>]
    /\ UNCHANGED <<assets, header, encoded, decoded>>
    /\ UNCHANGED <<vrVars, libVars, cueVars, stream>>

\* CueListDescriptor::from_bytes on the bytes to_bytes returned ; the
\* descriptor decoded is kept in result.arg
DescriptorFromBytes ==
    /\ result.op = "descriptor_to_bytes"
    /\ result.status = "Ok"
    /\ \E r \in { CueListDescriptor_from_bytes(result.arg[1]) } :
          result' = [op |-> "descriptor_from_bytes", status |-> r.status,
                     arg |-> << r.descriptor >>]
    /\ UNCHANGED <<assets, header, encoded, decoded>>
    /\ UNCHANGED <<vrVars, libVars, cueVars, stream>>

\* descriptor.size()
DescriptorSize ==
    /\ result' = [op |-> "descriptor_size", status |-> "Ok",
                  arg |-> << CueListDescriptor_size(cueDescriptor) >>]
    /\ UNCHANGED <<assets, header, encoded, decoded>>
    /\ UNCHANGED <<vrVars, libVars, cueVars, stream>>

NextCues ==
    \/ CuesNext
    \/ DescriptorToBytes
    \/ DescriptorFromBytes
    \/ DescriptorSize

SpecCues == InitCues /\ [][NextCues]_vars

----------------------------------------------------------------------------
(* A BitStream over a drawn byte slice, in a build with or without overflow  *)
(* checks, read in fields of several widths.                                 *)

\* the most bytes a stream of the model has
MaxStreamBytes == 4

\* the byte values of the streams: 0b10100010 and its complement
StreamByteValues == { 162, 93 }

\* the widths asked for, 32 included, and the positions get_bits is asked at
Widths == { 3, 11, 14, 32 }
FirstBits == { 0, 3 }

InitStream ==
    /\ assets = <<>>
    /\ header = BNLHeader_default
    /\ encoded = NoBytes
    /\ decoded = NoFile
    /\ result = NoResult
    /\ slices = <<>>
    /\ read = NoRead
    /\ made = NoDvl
    /\ lib = NoLib
    /\ libResult = NoLibResult
    /\ cueDescriptor = NoDescriptor
    /\ iter = NoIter
    /\ \E bytes \in SeqsUpTo(StreamByteValues, MaxStreamBytes), checks \in BOOLEAN :
          stream = [bytes |-> BitStream_new(bytes).bytes,
                    bit_cursor |-> BitStream_new(bytes).bit_cursor,
                    overflow_checks |-> checks, last |-> NoLast]

\* stream.read(num_bits)
Read(num_bits) ==
    /\ \E r \in { BitStream_read(stream.bytes, stream.overflow_checks,
                                  stream.bit_cursor, num_bits) } :
          stream' = [stream EXCEPT
                       !.bit_cursor = r.bit_cursor,
                       !.last = [op |-> "read", first_bit |-> stream.bit_cursor,
                                 num_bits |-> num_bits, status |-> r.status,
                                 value |-> r.value]]
    /\ UNCHANGED <<bnlVars, vrVars, libVars, cueVars>>

\* stream.get_bits(first_bit, num_bits)
GetBits(first_bit, num_bits) ==
    /\ \E r \in { get_bits(stream.bytes, stream.overflow_checks, first_bit, num_bits) } :
          stream' = [stream EXCEPT
                       !.last = [op |-> "get_bits", first_bit |-> first_bit,
                                 num_bits |-> num_bits, status |-> r.status,
                                 value |-> r.value]]
    /\ UNCHANGED <<bnlVars, vrVars, libVars, cueVars>>

NextStream ==
    \/ \E num_bits \in Widths : Read(num_bits)
    \/ \E first_bit \in FirstBits, num_bits \in Widths : GetBits(first_bit, num_bits)

SpecStream == InitStream /\ [][NextStream]_vars

----------------------------------------------------------------------------
(* BNLFile::to_bytes on an archive whose header came from a file: any flags, *)
(* any reserved bytes, a file_count and locations that are out of date.      *)

FileHeaders ==
    { [BNLHeader_default EXCEPT !.flags = flags, !.unknown_2 = unknown_2,
                                !.file_count = file_count,
                                !.descriptor_loc = descriptor_loc] :
        flags \in { 0, 3 }, unknown_2 \in { Zeros(5), << 1, 2, 3, 4, 5 >> },
        file_count \in { 0, 7 },
        descriptor_loc \in { DataView(0, 0), DataView(HEADER_SIZE, 9) } }

InitEncode ==
    /\ assets \in SeqsUpTo(AssetPool, MaxAssets)
    /\ header \in FileHeaders
    /\ encoded = NoBytes
    /\ decoded = NoFile
    /\ result = NoResult
    /\ slices = <<>>
    /\ read = NoRead
    /\ made = NoDvl
    /\ lib = NoLib
    /\ libResult = NoLibResult
    /\ cueDescriptor = NoDescriptor
    /\ iter = NoIter
    /\ stream = NoStream

NextEncode == ToBytes

SpecEncode == InitEncode /\ [][NextEncode]_vars

----------------------------------------------------------------------------
(* Mod::apply (modding.rs) on any archive that append_raw_asset can build.   *)
(* BNLFile::remove_asset, which apply calls, is not in bnl.rs: it is taken   *)
(* to remove the asset the lookup by name finds and to return it.            *)

\* BNLFile::remove_asset ; value is << the RawAsset removed >>
remove_asset(as, name) ==
    LET k == find(as, name)
    IN IF k = 0 THEN [status |-> "NotFound", value |-> NoValue, assets |-> as]
       ELSE [status |-> "Ok", value |-> << as[k] >>,
             assets |-> SubSeq(as, 1, k - 1) \o SubSeq(as, k + 1, Len(as))]

\* Vec::resize(new_len, value)
resize(v, new_len, value) ==
    IF new_len <= Len(v) THEN SubSeq(v, 1, new_len)
    ELSE v \o [k \in 1..(new_len - Len(v)) |-> value]

\* a variant that resizes the descriptor and forgets to copy
override_descriptor_resized(raw_asset, descriptor_bytes) ==
    [raw_asset EXCEPT !.descriptor_bytes = resize(@, Len(descriptor_bytes), 0)]

\* the descriptor of the removed asset resized and overwritten
override_descriptor(raw_asset, descriptor_bytes) ==
    [raw_asset EXCEPT !.descriptor_bytes =
        copy_from_slice(resize(@, Len(descriptor_bytes), 0), 0, descriptor_bytes)]

\* Mod::apply : the loop over the overrides, taken in the order `order`
RECURSIVE apply(_, _, _)
apply(as, overrides, order) ==
    IF order = <<>> THEN [overrides_applied |-> 0, assets |-> as]
    ELSE LET override_aid == Head(order)
             removed == remove_asset(as, override_aid)
             rest == apply(IF removed.status = "Ok"
                           THEN append_raw_asset(removed.assets,
                                    override_descriptor(removed.value[1],
                                                        overrides[override_aid]))
                           ELSE as,
                           overrides, Tail(order))
         IN IF removed.status = "Ok"
            THEN [rest EXCEPT !.overrides_applied = @ + 1]
            ELSE rest

\* the descriptor bytes the model overrides an asset with: empty for "b",
\* the name and two more bytes for the others
OverrideBytes(name) == IF name = << 98 >> THEN <<>> ELSE name \o << 7, 8 >>

\* the mods of the model: overrides for any set of the names
Mods == { [name \in S |-> OverrideBytes(name)] : S \in SUBSET LookupNames }

\* the orders a HashMap may iterate a set of keys in
Orders(S) ==
    { order \in [1..Cardinality(S) -> S] :
        \A i, j \in 1..Cardinality(S) : order[i] = order[j] => i = j }

InitMod ==
    /\ assets \in SeqsUpTo(AssetPool, MaxAssets)
    /\ header = BNLHeader_default
    /\ encoded = NoBytes
    /\ decoded = NoFile
    /\ result = NoResult
    /\ slices = <<>>
    /\ read = NoRead
    /\ made = NoDvl
    /\ lib = NoLib
    /\ libResult = NoLibResult
    /\ cueDescriptor = NoDescriptor
    /\ iter = NoIter
    /\ stream = NoStream

\* mod.apply(&mut bnl) ; the count returned and the overrides are kept in
\* result.arg
Apply(overrides, order) ==
    /\ \E r \in { apply(assets, overrides, order) } :
          /\ assets' = r.assets
          /\ result' = [op |-> "apply", status |-> "Ok",
                        arg |-> << r.overrides_applied, overrides >>]
    /\ UNCHANGED <<header, encoded, decoded>>
    /\ UNCHANGED <<vrVars, libVars, cueVars, stream>>

NextMod == \E overrides \in Mods : \E order \in Orders(DOMAIN overrides) :
              Apply(overrides, order)

SpecMod == InitMod /\ [][NextMod]_vars

----------------------------------------------------------------------------
(* AssetMetadata::name on its own: one asset whose name buffer is drawn from *)
(* NUL, two ASCII letters and a byte that is valid nowhere in UTF-8.         *)

NameBytes == { 0, 97, 98, 255 }

NameBuffers == [1..NameLen -> NameBytes]

InitName ==
    /\ assets \in { << RawAsset_new(AssetMetadata_new(buffer, "ResXCueList", 0, 0),
                                    <<>>, None) >> : buffer \in NameBuffers }
    /\ header = BNLHeader_default
    /\ encoded = NoBytes
    /\ decoded = NoFile
    /\ result = NoResult
    /\ slices = <<>>
    /\ read = NoRead
    /\ made = NoDvl
    /\ lib = NoLib
    /\ libResult = NoLibResult
    /\ cueDescriptor = NoDescriptor
    /\ iter = NoIter
    /\ stream = NoStream

\* metadata.name() on the asset of the archive ; the string is kept in result.arg
Name ==
    /\ result.op = "none"
    /\ result' = [op |-> "name", status |-> "Ok",
                  arg |-> AssetMetadata_name(assets[1].metadata)]
    /\ UNCHANGED <<assets, header, encoded, decoded>>
    /\ UNCHANGED <<vrVars, libVars, cueVars, stream>>

NextName == Name

SpecName == InitName /\ [][NextName]_vars

----------------------------------------------------------------------------
(* VirtualResource::from_dvl on its own: a view list and a pool are drawn,   *)
(* and the resource is built from them.                                      *)

\* the longest view list and the longest pool drawn
MaxViews == 2
MaxPool == 3

\* offsets and sizes up to one past the longest pool, so that both errors
\* happen
ViewPool == { DataView(o, z) : o \in 0..(MaxPool + 1), z \in 0..(MaxPool + 1) }

\* pools whose bytes all differ, so that a slice shows where it was cut
BytePools == { [i \in 1..n |-> i] : n \in 0..MaxPool }

InitDvl ==
    /\ assets = <<>>
    /\ header = BNLHeader_default
    /\ encoded = NoBytes
    /\ decoded = NoFile
    /\ result = NoResult
    /\ slices = <<>>
    /\ read = NoRead
    /\ made \in { DvlCall(views, bytes) :
                    views \in SeqsUpTo(ViewPool, MaxViews), bytes \in BytePools }
    /\ lib = NoLib
    /\ libResult = NoLibResult
    /\ cueDescriptor = NoDescriptor
    /\ iter = NoIter
    /\ stream = NoStream

NextDvl == FromDvl

SpecDvl == InitDvl /\ [][NextDvl]_vars

----------------------------------------------------------------------------
(* The BNLFile of lib.rs as a state machine *)

InitLib ==
    /\ assets = <<>>
    /\ header = BNLHeader_default
    /\ encoded = NoBytes
    /\ decoded = NoFile
    /\ result = NoResult
    /\ slices = <<>>
    /\ read = NoRead
    /\ made = NoDvl
    /\ lib \in { LibFile(as) : as \in SeqsUpTo(LibAssetPool, MaxAssets) }
    /\ libResult = NoLibResult
    /\ cueDescriptor = NoDescriptor
    /\ iter = NoIter
    /\ stream = NoStream

\* file.update_asset_from_descriptor(name, descriptor, data)
UpdateAssetFromDescriptor(name, descriptor, data) ==
    /\ \E r \in { update_asset_from_descriptor(lib, name, descriptor, data) } :
          /\ lib' = r.file
          /\ libResult' = [NoLibResult EXCEPT
                              !.op = "update_asset_from_descriptor",
                              !.status = r.status, !.name = name]
    /\ UNCHANGED <<bnlVars, vrVars, cueVars, stream>>

\* file.get_assets_occupying_descriptor_range(start1..end1)
GetAssetsOccupyingDescriptorRange(start1, end1) ==
    /\ libResult' = [NoLibResult EXCEPT
                        !.op = "get_assets_occupying_descriptor_range",
                        !.status = "Ok", !.range = << start1, end1 >>,
                        !.occupants =
                            get_assets_occupying_descriptor_range(lib, start1, end1)]
    /\ UNCHANGED <<bnlVars, vrVars, lib, cueVars, stream>>

NextLib ==
    \/ \E name \in LookupNames, descriptor \in AidListPool, data \in DataPool :
          UpdateAssetFromDescriptor(name, descriptor, data)
    \/ \E start1 \in 0..MaxRange, end1 \in 0..MaxRange :
          GetAssetsOccupyingDescriptorRange(start1, end1)

SpecLib == InitLib /\ [][NextLib]_vars

----------------------------------------------------------------------------
(* Claims about the archive *)

SameContent(x, y) ==
    /\ x.metadata.name = y.metadata.name
    /\ x.metadata.asset_type = y.metadata.asset_type
    /\ x.descriptor_bytes = y.descriptor_bytes
    /\ x.resource_chunks = y.resource_chunks

\* C1: decoding the bytes to_bytes produced from the asset list succeeds and
\* gives a list of the same length and order whose assets have the same name,
\* type code, descriptor bytes and resource chunks.
C1_RoundTrip ==
    decoded.input = "intact" =>
        /\ decoded.status = "Ok"
        /\ Len(decoded.assets) = Len(assets)
        /\ \A k \in 1..Len(assets) : SameContent(decoded.assets[k], assets[k])

\* a round trip of two assets, the first with several chunks (one of them
\* empty), the second with a non-empty descriptor of its own
C1_Witness ==
    /\ decoded.input = "intact"
    /\ decoded.status = "Ok"
    /\ Len(assets) = 2
    /\ assets[1].resource_chunks.some
    /\ Len(assets[1].resource_chunks.chunks) > 1
    /\ \E c \in 1..Len(assets[1].resource_chunks.chunks) :
          assets[1].resource_chunks.chunks[c] = <<>>
    /\ assets[2].descriptor_bytes # <<>>
    /\ assets[2].descriptor_bytes # assets[1].descriptor_bytes

\* C4: from_bytes returns an error, and no archive, for every malformed input:
\* shorter than the header, a section beyond the buffer, a descriptor range
\* beyond the descriptor section, a dataview_list_ptr beyond the buffer-views
\* section, a DataView outside the buffer section.
C4_FailFast ==
    decoded.input = "malformed" =>
        /\ decoded.status \in { "DecompressionFailure", "DataReadError" }
        /\ decoded.assets = <<>>

\* C5: get_asset returns NotFound when no asset has the name, TypeMismatch
\* when the first asset of that name has another type code, and a parse error
\* only when the name exists and the type matches.
C5_TypeSafeLookup ==
    result.op = "get_asset" =>
        LET name == result.arg[1]
            present == \E k \in 1..Len(assets) :
                            AssetMetadata_name(assets[k].metadata) = name
            first == find(assets, name)
        IN /\ ~ present => result.status = "NotFound"
           /\ (present /\ assets[first].metadata.asset_type # "ResXCueList")
                  => result.status = "TypeMismatch"
           /\ result.status = "ParseError"
                  => (present /\ assets[first].metadata.asset_type = "ResXCueList")

\* a lookup that returned TypeMismatch in an archive whose asset of another
\* type has a descriptor that does not parse
C5_Witness ==
    /\ result.op = "get_asset"
    /\ result.status = "TypeMismatch"
    /\ \E k \in 1..Len(assets) :
          /\ assets[k].metadata.asset_type # "ResXCueList"
          /\ CueListDescriptor_from_bytes(assets[k].descriptor_bytes).status # "Ok"

\* the archive was encoded and decoded right after append_raw_asset(a)
AppendedAndDecoded ==
    /\ result.op = "append_raw_asset"
    /\ decoded.input = "intact"

\* C6 as claimed: after append_raw_asset(a), to_bytes and from_bytes, looking
\* a's name up in the decoded archive returns an asset with a's name,
\* descriptor bytes and resource chunks.
C6_LookupReturnsAppended ==
    AppendedAndDecoded =>
        LET a == result.arg[1]
            k == find(decoded.assets, AssetMetadata_name(a.metadata))
        IN /\ k # 0
           /\ AssetMetadata_name(decoded.assets[k].metadata)
                 = AssetMetadata_name(a.metadata)
           /\ decoded.assets[k].descriptor_bytes = a.descriptor_bytes
           /\ decoded.assets[k].resource_chunks = a.resource_chunks

\* C6 as amended: the decoded archive holds, at the last position, an asset
\* with a's name, descriptor bytes and resource chunks; looking a's name up
\* returns it when no asset before it has the same name.
C6_AppendedPresent ==
    AppendedAndDecoded =>
        LET a == result.arg[1]
            n == Len(assets)
            name == AssetMetadata_name(a.metadata)
        IN /\ decoded.status = "Ok"
           /\ Len(decoded.assets) = n
           /\ SameContent(decoded.assets[n], a)
           /\ (\A j \in 1..(n - 1) : AssetMetadata_name(assets[j].metadata) # name)
                 => find(decoded.assets, name) = n

\* an asset appended after another one of the same name and other content
C6_Witness ==
    /\ AppendedAndDecoded
    /\ Len(assets) = 2
    /\ AssetMetadata_name(assets[1].metadata) = AssetMetadata_name(assets[2].metadata)
    /\ assets[1].descriptor_bytes # assets[2].descriptor_bytes

\* C7: when modify_asset(name, f) returns Ok, the asset stored at that
\* position decodes to f applied to what the original asset decoded to.
C7_ModifyConsistent ==
    [][ (result'.op = "modify_asset" /\ result'.status = "Ok") =>
          \A name \in LookupNames, f \in Closures :
            ModifyAsset(name, f) =>
              LET k == find(assets, name)
                  original == to_asset(assets[k]).value[1]
                  now == to_asset(assets'[k])
              IN /\ now.status = "Ok"
                 /\ now.value[1] = apply_closure(f, original).asset
      ]_vars

\* C8: a modify_asset or append_asset that returns an error leaves the asset
\* list exactly as it was: every step that ends with such a call having
\* failed has the list it started with.
C8_FailedMutationAtomic ==
    [][ (result'.op \in { "modify_asset", "append_asset" } /\ result'.status # "Ok")
            => assets' = assets
      ]_vars

\* a modify_asset that failed on an archive holding an asset that decodes
\* (so the failure came after the decode: from the closure or the re-encode)
C8_Witness ==
    /\ result.op = "modify_asset"
    /\ result.status = "ParseError"
    /\ \A k \in 1..Len(assets) : to_asset(assets[k]).status = "Ok"
    /\ assets # <<>>

\* C21: append_raw_asset(a) always succeeds and pushes to the end: the list is
\* one longer, its last element is a, every asset that was present is
\* unchanged at its index, and the header, which only to_bytes recomputes, is
\* left as it was.
C21_AppendPushesToEnd ==
    [][ (result'.op = "append_raw_asset" /\ ~ encoded'.some) =>
          /\ result'.status = "Ok"
          /\ Len(assets') = Len(assets) + 1
          /\ assets'[Len(assets')] = result'.arg[1]
          /\ \A k \in 1..Len(assets) : assets'[k] = assets[k]
          /\ header' = header
      ]_vars

\* an asset appended to an archive that was encoded when it held one asset:
\* the header still counts one
C21_Witness ==
    /\ result.op = "append_raw_asset"
    /\ ~ encoded.some
    /\ Len(assets) = 2
    /\ assets[1] # assets[2]
    /\ header.file_count = 1

\* C24: to_bytes leaves the asset list and the header's flags and reserved
\* bytes unchanged and rewrites only file_count and the four locations; a
\* second to_bytes with no mutation in between returns the same bytes.
C24_ToBytesFrame ==
    /\ [][ (encoded'.some /\ encoded' # encoded) =>
              /\ assets' = assets
              /\ header'.flags = header.flags
              /\ header'.unknown_2 = header.unknown_2
       ]_vars
    /\ [](encoded.some =>
             /\ BNLFile_to_bytes(assets, header).bytes = encoded.bytes
             /\ BNLFile_to_bytes(assets, header).header = header)

\* an archive of two assets, with flags and reserved bytes set, encoded
C24_Witness ==
    /\ encoded.some
    /\ Len(assets) = 2
    /\ header.flags # 0
    /\ header.unknown_2 # Zeros(5)
    /\ header.file_count = 2

\* the header and the inflated payload of the bytes to_bytes returned
EncodedHeader == read_header(encoded.bytes)
EncodedPayload ==
    decompress_to_vec_zlib(Slice(encoded.bytes, HEADER_SIZE, Len(encoded.bytes))).bytes
EncodedBuffer == SubSeq(encoded.bytes, 1, HEADER_SIZE) \o EncodedPayload
EncodedSection(loc) == Slice(EncodedBuffer, loc.offset, loc.offset + loc.size)

AllDescriptors == Concat([k \in 1..Len(assets) |-> assets[k].descriptor_bytes])
AllChunks ==
    Concat([k \in 1..Len(assets) |-> Concat(assets[k].resource_chunks.chunks)])

\* C9: the written header places the sections back-to-back in the order
\* asset descriptions, buffer views, buffer, descriptors: the first at 40 with
\* ASSET_DESCRIPTION_SIZE bytes per asset, each next one where the previous
\* ends, the last ending at 40 + the length of the uncompressed payload.
C9_HeaderLayout ==
    encoded.some =>
        LET h == EncodedHeader
        IN /\ h.asset_desc_loc.offset = 40
           /\ h.asset_desc_loc.size = ASSET_DESCRIPTION_SIZE * Len(assets)
           /\ h.buffer_views_loc.offset = h.asset_desc_loc.offset + h.asset_desc_loc.size
           /\ h.buffer_loc.offset = h.buffer_views_loc.offset + h.buffer_views_loc.size
           /\ h.descriptor_loc.offset = h.buffer_loc.offset + h.buffer_loc.size
           /\ h.descriptor_loc.offset + h.descriptor_loc.size = 40 + Len(EncodedPayload)
           /\ EncodedSection(h.buffer_loc) = AllChunks
           /\ EncodedSection(h.descriptor_loc) = AllDescriptors

\* an encoded archive in which all four sections are non-empty
C9_Witness ==
    /\ encoded.some
    /\ EncodedHeader.asset_desc_loc.size > 0
    /\ EncodedHeader.buffer_views_loc.size > 0
    /\ EncodedHeader.buffer_loc.size > 0
    /\ EncodedHeader.descriptor_loc.size > 0

\* the k-th AssetDescription record of the encoded archive
EncodedDescription(k) ==
    AssetDescription_from_bytes(
        Slice(EncodedSection(EncodedHeader.asset_desc_loc),
              (k - 1) * ASSET_DESCRIPTION_SIZE, k * ASSET_DESCRIPTION_SIZE)).description

\* the views of the DataViewList the description points at
EncodedViews(d) ==
    LET section == EncodedSection(EncodedHeader.buffer_views_loc)
    IN DataViewList_from_bytes(
           Slice(section, d.dataview_list_ptr, Len(section))).dvl.views

\* C10: in the encoded archive every description has descriptor_ptr +
\* descriptor_size within the descriptor section and descriptor_size equal to
\* the asset's descriptor length; every asset with resource chunks has
\* dataview_list_ptr + resource_size within the buffer-views section; every
\* view has offset + size within the buffer section and the size of its chunk.
C10_PointersInBounds ==
    encoded.some =>
        \A k \in 1..Len(assets) :
            LET d == EncodedDescription(k)
                h == EncodedHeader
                chunks == assets[k].resource_chunks.chunks
            IN /\ d.descriptor_ptr + d.descriptor_size <= h.descriptor_loc.size
               /\ d.descriptor_size = Len(assets[k].descriptor_bytes)
               /\ assets[k].resource_chunks.some =>
                    /\ d.dataview_list_ptr + d.resource_size <= h.buffer_views_loc.size
                    /\ Len(EncodedViews(d)) = Len(chunks)
                    /\ \A v \in 1..Len(chunks) :
                          /\ EncodedViews(d)[v].offset + EncodedViews(d)[v].size
                                <= h.buffer_loc.size
                          /\ EncodedViews(d)[v].size = Len(chunks[v])

\* an encoded archive of two assets with descriptors, the second with a
\* resource chunk
C10_Witness ==
    /\ encoded.some
    /\ Len(assets) = 2
    /\ assets[1].descriptor_bytes # <<>>
    /\ assets[2].descriptor_bytes # <<>>
    /\ assets[2].resource_chunks.some
    /\ Len(assets[2].resource_chunks.chunks) > 0

\* the descriptor range and the DataViewList range an encoded description names
DescriptorRange(d) == DataView(d.descriptor_ptr, d.descriptor_size)
DataViewListRange(d) == DataView(d.dataview_list_ptr, d.resource_size)

\* the views of every encoded asset that has a DataViewList, in asset order
RECURSIVE EncodedViewsFrom(_)
EncodedViewsFrom(k) ==
    IF k > Len(assets) THEN <<>>
    ELSE (IF EncodedDescription(k).resource_size = 0 THEN <<>>
          ELSE EncodedViews(EncodedDescription(k))) \o EncodedViewsFrom(k + 1)

\* C11: in the bytes to_bytes produced, the descriptor ranges of the assets
\* follow one another in asset order from 0 and no two overlap, no two assets'
\* DataViewList ranges overlap, and no two resource chunks' buffer ranges
\* overlap, whether the chunks belong to one asset or to two.
C11_RangesNeverAlias ==
    encoded.some =>
        LET n == Len(assets)
            views == EncodedViewsFrom(1)
        IN /\ \A k \in 1..n :
                EncodedDescription(k).descriptor_ptr =
                    IF k = 1 THEN 0
                    ELSE EncodedDescription(k - 1).descriptor_ptr
                            + EncodedDescription(k - 1).descriptor_size
           /\ \A j \in 1..n, k \in 1..n :
                j < k =>
                  /\ ~ overlaps(DescriptorRange(EncodedDescription(j)),
                                DescriptorRange(EncodedDescription(k)))
                  /\ ~ overlaps(DataViewListRange(EncodedDescription(j)),
                                DataViewListRange(EncodedDescription(k)))
           /\ \A v \in 1..Len(views), w \in 1..Len(views) :
                v < w => ~ overlaps(views[v], views[w])

\* an encoded archive of two assets that both have a DataViewList and a
\* descriptor, with at least two non-empty chunks among them
C11_Witness ==
    /\ encoded.some
    /\ Len(assets) = 2
    /\ \A k \in 1..2 : /\ assets[k].resource_chunks.some
                       /\ assets[k].descriptor_bytes # <<>>
    /\ \E v \in 1..Len(EncodedViewsFrom(1)), w \in 1..Len(EncodedViewsFrom(1)) :
          /\ v < w
          /\ EncodedViewsFrom(1)[v].size > 0
          /\ EncodedViewsFrom(1)[w].size > 0

\* C12: an encoded description with resource_size 0 decodes to resource_chunks
\* None; an asset whose resource_chunks is None is encoded with resource_size 0
\* and dataview_list_ptr 0; the typed asset built from a decoded asset without
\* resource chunks returns None from get_resource_chunks; an asset with
\* Some(chunks) decodes back to Some(chunks).
C12_EmptyResource ==
    decoded.input = "intact" =>
        /\ decoded.status = "Ok"
        /\ Len(decoded.assets) = Len(assets)
        /\ \A k \in 1..Len(assets) :
              LET d == EncodedDescription(k)
                  raw == decoded.assets[k]
              IN /\ d.resource_size = 0 => raw.resource_chunks = None
                 /\ assets[k].resource_chunks = None
                        => (d.resource_size = 0 /\ d.dataview_list_ptr = 0)
                 /\ (raw.resource_chunks = None /\ to_asset(raw).status = "Ok")
                        => get_resource_chunks(to_asset(raw).value[1].asset) = None
                 /\ assets[k].resource_chunks.some
                        => raw.resource_chunks = assets[k].resource_chunks

\* a decoded archive whose first asset has a DataViewList at pointer 0 with no
\* views and whose second asset has no resource chunks and decodes as a CueList
C12_Witness ==
    /\ decoded.input = "intact"
    /\ Len(assets) = 2
    /\ assets[1].resource_chunks = Some(<<>>)
    /\ EncodedDescription(1).dataview_list_ptr = 0
    /\ EncodedDescription(1).resource_size > 0
    /\ assets[2].resource_chunks = None
    /\ to_asset(decoded.assets[2]).status = "Ok"

\* C13: from_bytes decodes exactly file_count records: whenever it succeeds,
\* the decoded asset list has the length the header's file_count gives, also
\* when the asset-description section holds another number of records.
C13_DecodesFileCount ==
    decoded.status = "Ok" => Len(decoded.assets) = decoded.header.file_count

\* C14: the file_count to_bytes writes in the header equals the number of
\* assets in the list, for every list length, also one that does not fit in
\* 16 bits.
C14_FileCountIsLength ==
    result.op = "to_bytes" => header.file_count = Len(assets)

----------------------------------------------------------------------------
(* Claims about the typed scan and the lookup by name *)

\* an asset of type CueList whose descriptor decodes
Decodes(raw) == to_asset(raw).status = "Ok"

\* the decoded CueLists of the archive, in archive order
DecodedInOrder ==
    LET sel == SelectSeq(assets, Decodes)
    IN [i \in 1..Len(sel) |-> to_asset(sel[i]).value[1].asset]

\* C18: get_assets::<CueList>() never fails; it returns, in archive order,
\* exactly the assets of type CueList that decode, skipping assets of another
\* type and assets of the type that fail to decode, and it leaves the archive
\* unchanged.
C18_TypedScan ==
    /\ [](result.op = "get_assets" =>
             /\ result.status = "Ok"
             /\ result.arg = DecodedInOrder)
    /\ [][ (result'.op = "get_assets" /\ result' # result) =>
              UNCHANGED <<assets, header, encoded, decoded>> ]_vars

\* a scan of two assets of type CueList of which one fails to decode
C18_Witness ==
    /\ result.op = "get_assets"
    /\ Len(assets) = 2
    /\ Len(result.arg) = 1
    /\ \A k \in 1..2 : assets[k].metadata.asset_type = "ResXCueList"
    /\ \E k \in 1..2 : ~Decodes(assets[k])

\* the positions of the assets named `name`, and the first of them
Named(name) == { k \in 1..Len(assets) : AssetMetadata_name(assets[k].metadata) = name }

FirstNamed(name) == CHOOSE k \in Named(name) : \A j \in Named(name) : k <= j

\* C20: get_raw_asset(name) returns the first asset in list order whose name
\* is `name`, and None exactly when no asset has that name; get_asset and
\* modify_asset address that same first asset: get_asset returns what it
\* decodes to, and modify_asset changes no other position of the list.
C20_LookupByName ==
    /\ [](result.op = "get_raw_asset" =>
             LET name == result.arg[1]
             IN IF Named(name) = {}
                THEN result.status = "None" /\ Len(result.arg) = 1
                ELSE /\ result.status = "Some"
                     /\ result.arg = << name, assets[FirstNamed(name)] >>)
    /\ [](result.op = "get_asset" =>
             LET name == result.arg[1]
             IN result.status =
                    IF Named(name) = {} THEN "NotFound"
                    ELSE to_asset(assets[FirstNamed(name)]).status)
    /\ [][ (result'.op = "modify_asset" /\ assets' # assets) =>
              LET name == result'.arg[1]
              IN /\ Named(name) # {}
                 /\ Len(assets') = Len(assets)
                 /\ \A j \in 1..Len(assets) :
                       j # FirstNamed(name) => assets'[j] = assets[j]
       ]_vars

\* a lookup in an archive of two different assets of one name returned the
\* first of them
C20_Witness ==
    /\ result.op = "get_raw_asset"
    /\ result.status = "Some"
    /\ Len(assets) = 2
    /\ AssetMetadata_name(assets[1].metadata) = AssetMetadata_name(assets[2].metadata)
    /\ assets[1] # assets[2]
    /\ result.arg[2] = assets[1]

\* C22: when modify_asset::<CueList>(name, f) returns Ok, the list has the
\* same length, the modified asset is at the index it had and carries the
\* metadata of the typed asset after f, and every other asset is unchanged.
C22_ModifyInPlace ==
    [][ (result'.op = "modify_asset" /\ result'.status = "Ok") =>
          \A name \in LookupNames, f \in Closures :
            ModifyAsset(name, f) =>
              /\ Named(name) # {}
              /\ Len(assets') = Len(assets)
              /\ assets'[FirstNamed(name)].metadata =
                    apply_closure(f, to_asset(assets[FirstNamed(name)]).value[1])
                        .asset.metadata
              /\ \A j \in 1..Len(assets) :
                    j # FirstNamed(name) => assets'[j] = assets[j]
      ]_vars

\* a modify_asset that renamed the first of two assets: the renamed asset is
\* still first
C22_Witness ==
    /\ result.op = "modify_asset"
    /\ result.status = "Ok"
    /\ ~ encoded.some
    /\ Len(assets) = 2
    /\ assets[1].metadata.name = RenamedTo
    /\ assets[2].metadata.name # RenamedTo

\* the names a mod overrides that the archive holds, and the positions of the
\* assets those overrides address
PresentIn(overrides) == { name \in DOMAIN overrides : Named(name) # {} }

Addressed(overrides) == { FirstNamed(name) : name \in PresentIn(overrides) }

BeforeNul(buffer) ==
    LET nuls == { k \in 1..Len(buffer) : buffer[k] = 0 }
    IN IF nuls = {} THEN buffer
       ELSE SubSeq(buffer, 1, (CHOOSE k \in nuls : \A j \in nuls : k <= j) - 1)

\* C19: name() returns the bytes of the name buffer that precede the first
\* NUL, the whole buffer when it holds none, whatever the buffer holds,
\* arbitrary bytes after the first NUL included.
C19_NameBeforeNul ==
    result.op = "name" => result.arg = BeforeNul(assets[1].metadata.name)

----------------------------------------------------------------------------
(* Claims about the CueListDescriptor *)

\* every (group name, cue) pair of the descriptor, in group order and then
\* cue order
RECURSIVE PairsOf(_)
PairsOf(groups) ==
    IF groups = <<>> THEN <<>>
    ELSE [c \in 1..Len(Head(groups).cues) |->
             << Head(groups).name, Head(groups).cues[c] >>]
         \o PairsOf(Tail(groups))

\* C25: cues() yields every (group name, cue) pair once, in group order and
\* then cue order, for every descriptor, groups with no cue included; once
\* next() has returned None all pairs have been yielded.
C25_CuesComplete ==
    /\ Len(iter.yielded) <= Len(PairsOf(cueDescriptor.groups))
    /\ iter.yielded = SubSeq(PairsOf(cueDescriptor.groups), 1, Len(iter.yielded))
    /\ iter.ended => iter.yielded = PairsOf(cueDescriptor.groups)

\* consecutive groups of the descriptor have different names
DistinctNeighbours(d) ==
    \A g \in 1..(Len(d.groups) - 1) : d.groups[g].name # d.groups[g + 1].name

\* C26: for every descriptor that passes validate() and whose consecutive
\* groups have different names, from_bytes(to_bytes(d)) succeeds and yields
\* the same groups in order, each with its name and its cues, the last group
\* included.
C26_CueListRoundTrip ==
    (/\ result.op = "descriptor_from_bytes"
     /\ validate(cueDescriptor)
     /\ DistinctNeighbours(cueDescriptor))
        => /\ result.status = "Ok"
           /\ result.arg[1].groups = cueDescriptor.groups

\* the descriptor is one that from_bytes returns for the encoding of some
\* descriptor
DecodedDescriptor(d) ==
    \E e \in CueDescriptors :
        /\ CueListDescriptor_to_bytes(e).status = "Ok"
        /\ CueListDescriptor_from_bytes(CueListDescriptor_to_bytes(e).bytes)
               = [status |-> "Ok", descriptor |-> d]

\* C27: for every descriptor that from_bytes returns, whenever to_bytes
\* returns Ok(b), size() is the length of b.
C27_SizeIsEncodedLength ==
    (/\ result.op = "descriptor_size"
     /\ DecodedDescriptor(cueDescriptor)
     /\ CueListDescriptor_to_bytes(cueDescriptor).status = "Ok")
        => result.arg[1] = Len(CueListDescriptor_to_bytes(cueDescriptor).bytes)

----------------------------------------------------------------------------
(* Claims about the VirtualResource as a whole *)

\* the sum of the slice lengths
RECURSIVE SumOfLengths(_)
SumOfLengths(sl) == IF sl = <<>> THEN 0 ELSE SumOfLengths(Tail(sl)) + Len(Head(sl))

\* C30: for every slice list len() is the sum of the slice lengths,
\* is_empty() holds exactly when that sum is 0, and get_all_bytes() returns
\* the concatenation of the slices in order, which is what get_bytes(0, len())
\* returns.
C30_LengthAndWhole ==
    /\ result.op = "len" => result.arg[1] = SumOfLengths(slices)
    /\ result.op = "is_empty" => (result.arg[1] <=> SumOfLengths(slices) = 0)
    /\ result.op = "get_all_bytes" =>
          /\ result.arg[1] = Concat(slices)
          /\ read.status # "None" =>
                /\ read.start = 0
                /\ read.size = SumOfLengths(slices)
                /\ read.status = "Ok"
                /\ read.bytes = result.arg[1]

\* the whole of a resource of four slices, an empty one among them, has been
\* materialized both ways
C30_Witness ==
    /\ Len(slices) = 4
    /\ \E k \in 1..4 : slices[k] = <<>>
    /\ SumOfLengths(slices) > MaxSliceLen
    /\ result.op = "get_all_bytes"
    /\ read.status = "Ok"

----------------------------------------------------------------------------
(* Claims about the BitStream *)

\* bit k of the stream: bit k mod 8 of byte k div 8
StreamBit(bytes, k) == BitOf(bytes[(k \div 8) + 1], k % 8)

\* the unsigned integer formed by the stream bits [first_bit, first_bit + n),
\* lowest stream bit as least significant bit
Field(bytes, first_bit, n) ==
    [k \in 1..32 |-> IF k <= n THEN StreamBit(bytes, first_bit + k - 1) ELSE 0]

\* C28: read(n) with 1 <= n <= 32 and cursor + n <= 8 * len(B) returns the
\* stream bits [cursor, cursor + n) as an unsigned integer, lowest stream bit
\* least significant, and advances the cursor by exactly n.
C28_SequentialRead ==
    (/\ stream.last.op = "read"
     /\ stream.last.num_bits >= 1
     /\ stream.last.num_bits <= 32
     /\ stream.last.first_bit + stream.last.num_bits <= 8 * Len(stream.bytes))
        => /\ stream.last.status = "Ok"
           /\ stream.last.value
                 = Field(stream.bytes, stream.last.first_bit, stream.last.num_bits)
           /\ stream.bit_cursor = stream.last.first_bit + stream.last.num_bits

\* C29: get_bits(first_bit, n) and read(n) return Err whenever first_bit + n
\* (for read, cursor + n) exceeds 8 * len(bytes), and a read that returns Err
\* leaves the cursor where it was.
C29_PastEndRejected ==
    /\ (/\ stream.last.op \in { "read", "get_bits" }
        /\ stream.last.first_bit + stream.last.num_bits > 8 * Len(stream.bytes))
           => stream.last.status = "Err"
    /\ (stream.last.op = "read" /\ stream.last.status = "Err")
           => stream.bit_cursor = stream.last.first_bit

----------------------------------------------------------------------------
(* Claims about the BNLFile of lib.rs *)

\* C15: update_asset_from_descriptor called with a descriptor whose encoded
\* size exceeds the asset's recorded descriptor_size returns an error and
\* leaves the sections unchanged; and no call, failed or not, changes
\* descriptor bytes outside the named asset's recorded range.
C15_GrowthRefused ==
    [][ libResult'.op = "update_asset_from_descriptor" =>
          \A name \in LookupNames, descriptor \in AidListPool, data \in DataPool :
            UpdateAssetFromDescriptor(name, descriptor, data) =>
              LET k == get_asset_description(lib, name)
                  asset_desc == lib.asset_descriptions[k]
                  first == asset_desc.descriptor_ptr
                  last == asset_desc.descriptor_ptr + asset_desc.descriptor_size
              IN k # 0 =>
                   /\ Len(AidListDescriptor_to_bytes(descriptor))
                          > asset_desc.descriptor_size
                        => /\ libResult'.status \notin { "Ok", "Panic" }
                           /\ lib' = lib
                   /\ Len(lib'.descriptor_bytes) = Len(lib.descriptor_bytes)
                   /\ \A i \in 1..Len(lib.descriptor_bytes) :
                        (i <= first \/ i > last)
                            => lib'.descriptor_bytes[i] = lib.descriptor_bytes[i]
      ]_vars

\* the positions of the descriptions whose descriptor range shares a byte with
\* start1..end1
Sharing(file, start1, end1) ==
    { k \in 1..Len(file.asset_descriptions) :
        \E byte \in start1..(end1 - 1) :
            /\ file.asset_descriptions[k].descriptor_ptr <= byte
            /\ byte < file.asset_descriptions[k].descriptor_ptr
                        + file.asset_descriptions[k].descriptor_size }

\* C16: get_assets_occupying_descriptor_range returns, in archive order,
\* exactly the descriptions whose descriptor range shares at least one byte
\* with the half-open range given: none for an empty range, none that only
\* touches the range.
C16_OccupantsShareAByte ==
    libResult.op = "get_assets_occupying_descriptor_range" =>
        LET hits == libResult.occupants
        IN /\ { hits[i] : i \in 1..Len(hits) }
                = Sharing(lib, libResult.range[1], libResult.range[2])
           /\ \A i \in 1..Len(hits), j \in 1..Len(hits) : i < j => hits[i] < hits[j]

----------------------------------------------------------------------------
(* Claims about VirtualResource *)

\* the views of the call that lie outside the pool
OutOfPool(k) ==
    \/ made.views[k].offset > Len(made.bytes)
    \/ Len(made.bytes) - made.views[k].offset < made.views[k].size

FirstOutOfPool ==
    CHOOSE k \in 1..Len(made.views) :
        OutOfPool(k) /\ \A j \in 1..(k - 1) : ~OutOfPool(j)

\* C17: from_dvl(list, pool) fails with OffsetOutOfBounds at the first view
\* whose offset is beyond the pool, with SizeOutOfBounds at the first view
\* whose offset is within the pool and whose size exceeds what is left of it,
\* and otherwise gives the resource whose i-th slice is
\* pool[offset_i .. offset_i + size_i]; it never panics.
C17_FromDvl ==
    made.status # "None" =>
        /\ made.status # "Panic"
        /\ IF \E k \in 1..Len(made.views) : OutOfPool(k)
           THEN made.status =
                    IF made.views[FirstOutOfPool].offset > Len(made.bytes)
                    THEN "OffsetOutOfBounds" ELSE "SizeOutOfBounds"
           ELSE /\ made.status = "Ok"
                /\ Len(slices) = Len(made.views)
                /\ \A i \in 1..Len(slices) :
                      slices[i] = SubSeq(made.bytes, made.views[i].offset + 1,
                                         made.views[i].offset + made.views[i].size)

\* a view within the pool followed by one that starts within it and runs past
\* its end: the call fails with SizeOutOfBounds
C17_Witness ==
    /\ made.status = "SizeOutOfBounds"
    /\ Len(made.views) = 2
    /\ ~OutOfPool(1)
    /\ made.views[1].size > 0
    /\ made.views[2].offset <= Len(made.bytes)

\* C2: whenever get_bytes(start, len) is asked for a range inside the resource
\* (0 <= start <= start + len <= total length), it returns Ok with exactly the
\* bytes start..start+len of the concatenation of the slices.
C2_ReadCorrect ==
    (read.status # "None" /\ read.start + read.size <= len(slices))
        => /\ read.status = "Ok"
           /\ Len(read.bytes) = read.size
           /\ read.bytes = Slice(Concat(slices), read.start, read.start + read.size)

\* the scenario of tests::read_across_slices at the model's scale: four full
\* slices, a read that starts in the second, covers the third and ends in the
\* fourth
C2_Witness ==
    /\ Len(slices) = 4
    /\ \A k \in 1..4 : Len(slices[k]) = MaxSliceLen
    /\ read.status = "Ok"
    /\ read.start = 2 * MaxSliceLen - 1
    /\ read.size = 2 * MaxSliceLen
    /\ read.bytes = Slice(slices[2], MaxSliceLen - 1, MaxSliceLen)
                        \o slices[3] \o Slice(slices[4], 0, MaxSliceLen - 1)

\* C3: get_bytes(start, len) returns OffsetOutOfBounds when start is beyond the
\* total length L, SizeOutOfBounds when start <= L and L - start < len, Ok in
\* every other case, and never panics.
C3_OutOfBounds ==
    read.status # "None" =>
        LET L == len(slices)
        IN /\ read.status # "Panic"
           /\ (read.start > L) => read.status = "OffsetOutOfBounds"
           /\ (read.start <= L /\ L - read.start < read.size)
                  => read.status = "SizeOutOfBounds"
           /\ (read.start <= L /\ L - read.start >= read.size)
                  => read.status = "Ok"

\* a read that starts inside a non-empty resource and asks for one byte more
\* than is left
C3_Witness ==
    /\ len(slices) > 0
    /\ read.status = "SizeOutOfBounds"
    /\ read.start < len(slices)
    /\ read.size = len(slices) - read.start + 1

====
